---------------------------- MODULE Spec2Model ----------------------------
(***************************************************************************)
(* Model of the sleep/motion state-inference engine of baby-sleep          *)
(* (src/sleep_manager.py): BreathingAnalyzer and SleepManager.             *)
(*                                                                         *)
(* Units.  Time is counted in ticks of a quarter of a second, so that the   *)
(* smallest time constant of the source (the 0.5 s spasm confirmation) is  *)
(* two ticks and a shorter gap between two samples exists.  Motion scores  *)
(* are the raw integers of the source.  A mean is kept as the pair         *)
(* (sum, count) and a ratio as the pair (numerator, denominator); every    *)
(* comparison the source makes on them is made exactly, in integers.       *)
(* None is modelled by the string "none" for states and by the time -1     *)
(* (time.time() is positive) for timestamps.                               *)
(***************************************************************************)
EXTENDS Integers, Sequences, FiniteSets, TLC

VARIABLES
    now,         \* the wall clock read by time.time(), in ticks
    sm,          \* the fields of the SleepManager instance
    ba,          \* the fields of its BreathingAnalyzer
    thresholds,  \* the upper-case attributes set_thresholds can override
    history,     \* the history files: the list of entries each file name holds
    log,         \* the "State transition" lines written by logger.info
    obs,         \* what the last call did (observation only, never read by the code)
    lock,        \* self.lock, the reentrant lock every public method takes
    threads      \* where each thread stands in the method it is calling

engine == <<now, sm, ba, thresholds, history, log, obs>>

vars == <<now, sm, ba, thresholds, history, log, obs, lock, threads>>

-----------------------------------------------------------------------------
(* Units and bounds *)

\* the literal 0.5 (seconds) of _get_confirmation_time, in ticks
HalfSecond == 2
Second == 2 * HalfSecond
None == 0 - 1

\* the number of calls explored after each starting state
MaxCalls == 2

-----------------------------------------------------------------------------
(* class SleepState *)

UNKNOWN == "unknown"
NO_BREATHING == "no_breathing"
DEEP_SLEEP == "deep_sleep"
LIGHT_SLEEP == "light_sleep"
SPASM == "spasm"
AWAKE == "awake"
NoState == "none"

SleepState == {UNKNOWN, NO_BREATHING, DEEP_SLEEP, LIGHT_SLEEP, SPASM, AWAKE}

\* SleepEvent(event_type, timestamp, data): data is the one number an event
\* carries (the wake_up sleep_duration) or the phase pair of a phase_change.
SleepEvent(event_type, timestamp, data) ==
    [event_type |-> event_type, timestamp |-> timestamp, data |-> data]

NoData == <<>>

-----------------------------------------------------------------------------
(* Arithmetic helpers: exact comparisons of a mean sum/n with an integer *)

SeqSum(s) ==
    LET F[i \in 0..Len(s)] == IF i = 0 THEN 0 ELSE F[i - 1] + s[i]
    IN  F[Len(s)]

SeqSumSq(s) ==
    LET F[i \in 0..Len(s)] == IF i = 0 THEN 0 ELSE F[i - 1] + s[i] * s[i]
    IN  F[Len(s)]

SeqMax(s) == CHOOSE x \in {s[i] : i \in DOMAIN s} : \A i \in DOMAIN s : s[i] <= x

SeqMin(s) == CHOOSE x \in {s[i] : i \in DOMAIN s} : \A i \in DOMAIN s : x <= s[i]

\* s[-k:] of Python
LastN(s, k) == IF Len(s) <= k THEN s ELSE SubSeq(s, Len(s) - k + 1, Len(s))

\* sum/n < t, for n > 0 (t is an integer, so floor(sum/n) < t says the same)
MeanLess(sum, n, t) == (sum \div n) < t

\* sum/n > t, for n > 0
MeanGreater(sum, n, t) == (sum \div n) > t \/ ((sum \div n) = t /\ sum % n # 0)

\* a faulty deque without maxlen: nothing is evicted
DequeAppend_unbounded(q, x, m) == Append(q, x)

\* deque(maxlen=m).append(x)
DequeAppend(q, x, m) == IF Len(q) >= m THEN Append(Tail(q), x) ELSE Append(q, x)

-----------------------------------------------------------------------------
(* class BreathingAnalyzer *)

BREATH_PEAK_THRESHOLD == 50000
MIN_BREATH_INTERVAL == 1 * Second
MAX_BREATH_INTERVAL == 5 * Second
MaxBreathTimestamps == 100
MaxBreathIntervals == 50

BreathingAnalyzerInit ==
    [breath_timestamps |-> <<>>, breath_intervals |-> <<>>,
     last_peak_time |-> None, in_peak |-> FALSE]

\* a faulty PeakAfterPeak that lacks the lower bound: an interval shorter than
\* MIN_BREATH_INTERVAL is recorded like a valid one
PeakAfterPeak_no_minimum(b, interval, timestamp) ==
    IF interval <= MAX_BREATH_INTERVAL
    THEN [b EXCEPT !.in_peak = TRUE,
                   !.last_peak_time = timestamp,
                   !.breath_timestamps = DequeAppend(@, timestamp, MaxBreathTimestamps),
                   !.breath_intervals = DequeAppend(@, interval, MaxBreathIntervals)]
    ELSE [b EXCEPT !.in_peak = TRUE,
                   !.last_peak_time = timestamp,
                   !.breath_timestamps = DequeAppend(@, timestamp, MaxBreathTimestamps)]

\* a faulty PeakAfterPeak that refreshes last_peak_time only with a peak it
\* records: a peak closer than MIN_BREATH_INTERVAL leaves the old time
PeakAfterPeak_stale_peak_time(b, interval, timestamp) ==
    IF MIN_BREATH_INTERVAL <= interval /\ interval <= MAX_BREATH_INTERVAL
    THEN [b EXCEPT !.in_peak = TRUE,
                   !.last_peak_time = timestamp,
                   !.breath_timestamps = DequeAppend(@, timestamp, MaxBreathTimestamps),
                   !.breath_intervals = DequeAppend(@, interval, MaxBreathIntervals)]
    ELSE IF interval > MAX_BREATH_INTERVAL
    THEN [b EXCEPT !.in_peak = TRUE,
                   !.last_peak_time = timestamp,
                   !.breath_timestamps = DequeAppend(@, timestamp, MaxBreathTimestamps)]
    ELSE [b EXCEPT !.in_peak = TRUE]

\* the branch taken when a new peak follows an earlier one at distance interval
PeakAfterPeak(b, interval, timestamp) ==
    IF MIN_BREATH_INTERVAL <= interval /\ interval <= MAX_BREATH_INTERVAL
    THEN [b EXCEPT !.in_peak = TRUE,
                   !.last_peak_time = timestamp,
                   !.breath_timestamps = DequeAppend(@, timestamp, MaxBreathTimestamps),
                   !.breath_intervals = DequeAppend(@, interval, MaxBreathIntervals)]
    ELSE IF interval > MAX_BREATH_INTERVAL
    THEN [b EXCEPT !.in_peak = TRUE,
                   !.last_peak_time = timestamp,
                   !.breath_timestamps = DequeAppend(@, timestamp, MaxBreathTimestamps)]
    ELSE [b EXCEPT !.in_peak = TRUE, !.last_peak_time = timestamp]

\* a faulty process_motion without the in_peak test: every sample above the
\* threshold is a new peak
process_motion_peak_per_sample(b, motion_score, timestamp) ==
    IF motion_score > BREATH_PEAK_THRESHOLD
    THEN IF b.last_peak_time # None
         THEN PeakAfterPeak(b, timestamp - b.last_peak_time, timestamp)
         ELSE [b EXCEPT !.in_peak = TRUE,
                        !.last_peak_time = timestamp,
                        !.breath_timestamps = DequeAppend(@, timestamp, MaxBreathTimestamps)]
    ELSE [b EXCEPT !.in_peak = FALSE]

\* process_motion: the analyzer after the sample (its return value is only logged)
process_motion(b, motion_score, timestamp) ==
    IF motion_score > BREATH_PEAK_THRESHOLD
    THEN IF ~b.in_peak
         THEN IF b.last_peak_time # None
              THEN PeakAfterPeak(b, timestamp - b.last_peak_time, timestamp)
              ELSE [b EXCEPT !.in_peak = TRUE,
                             !.last_peak_time = timestamp,
                             !.breath_timestamps = DequeAppend(@, timestamp, MaxBreathTimestamps)]
         ELSE b
    ELSE [b EXCEPT !.in_peak = FALSE]

\* The coefficient of variation of the last <= 20 intervals is stdev/mean; its
\* square is Num/Den with the two integers below (n values, sum S, sum of
\* squares Q: variance = (n*Q - S*S) / (n*(n-1)), mean = S/n).
CvNum(recent) ==
    Len(recent) * (Len(recent) * SeqSumSq(recent) - SeqSum(recent) * SeqSum(recent))

CvDen(recent) == (Len(recent) - 1) * SeqSum(recent) * SeqSum(recent)

\* get_breathing_variability: the intervals the variability is computed from,
\* or <<>> where the method returns 0.0 for lack of data
VariabilityIntervals(b) ==
    IF Len(b.breath_intervals) < 5 THEN <<>>
    ELSE LET recent == LastN(b.breath_intervals, 20)
         IN  IF SeqSum(recent) > 0 /\ Len(recent) >= 2 THEN recent ELSE <<>>

\* get_breathing_variability() == 0
VariabilityIsZero(b) ==
    VariabilityIntervals(b) = <<>> \/ CvNum(VariabilityIntervals(b)) = 0

\* get_breathing_variability() < 0.15, i.e. cv^2 < 9/400
VariabilityLow(b) ==
    /\ VariabilityIntervals(b) # <<>>
    /\ 400 * CvNum(VariabilityIntervals(b)) < 9 * CvDen(VariabilityIntervals(b))

\* get_breathing_variability() > 0.30, i.e. cv^2 > 9/100
VariabilityHigh(b) ==
    /\ VariabilityIntervals(b) # <<>>
    /\ 100 * CvNum(VariabilityIntervals(b)) > 9 * CvDen(VariabilityIntervals(b))

\* round(get_breathing_variability(), 3) > 0.4, i.e. cv >= 0.4005, i.e.
\* cv^2 >= 0.16040025: the first nine decimals of Num/Den, three at a time
RoundedVariabilityAbove04(b) ==
    /\ VariabilityIntervals(b) # <<>>
    /\ LET num == CvNum(VariabilityIntervals(b))
           den == CvDen(VariabilityIntervals(b))
           d1 == (num * 1000) \div den
           r1 == (num * 1000) % den
           d2 == (r1 * 1000) \div den
           r2 == (r1 * 1000) % den
           d3 == (r2 * 1000) \div den
       IN  \/ d1 > 160
           \/ d1 = 160 /\ d2 > 400
           \/ d1 = 160 /\ d2 = 400 /\ d3 >= 250

get_sleep_phase(b) ==
    IF VariabilityIsZero(b) THEN "unknown"
    ELSE IF VariabilityLow(b) THEN "deep"
    ELSE IF VariabilityHigh(b) THEN "light"
    ELSE "transitional"

-----------------------------------------------------------------------------
(* class SleepManager: constants *)

\* The upper-case attributes of the class.  set_thresholds overrides them on
\* the instance, so the model reads them from the variable thresholds.
DefaultThresholds ==
    [NO_MOTION_THRESHOLD |-> 10000,
     BREATHING_LOW |-> 10000,
     BREATHING_HIGH |-> 1500000,
     MOVEMENT_THRESHOLD |-> 5000000,
     AWAKE_THRESHOLD |-> 10000000,
     BUFFER_DURATION |-> 60 * Second,
     ANALYSIS_WINDOW |-> 10 * Second,
     SPASM_WINDOW |-> 5 * Second,
     CONFIRM_AWAKE_SECONDS |-> 8 * Second,
     CONFIRM_SLEEP_SECONDS |-> 15 * Second,
     CONFIRM_NO_BREATHING_SECONDS |-> 12 * Second,
     CONFIRM_PHASE_CHANGE_SECONDS |-> 30 * Second,
     HISTORY_FILE |-> 0]

\* the file names HISTORY_FILE takes, by number: 0 is "sleep_history.json",
\* the next one any other name
OtherHistoryFile == DefaultThresholds.HISTORY_FILE + 1

HistoryFiles == {DefaultThresholds.HISTORY_FILE, OtherHistoryFile}

\* no history file exists
NoHistory == [file \in HistoryFiles |-> <<>>]

\* the confirmation times written as literals in _get_confirmation_time
CONFIRM_SPASM == HalfSecond
CONFIRM_DEFAULT == 3 * Second

MaxHistory == 100
MinSleepToSave == 60 * Second

VALID_TRANSITIONS ==
    [s \in SleepState |->
        CASE s = UNKNOWN -> {NO_BREATHING, DEEP_SLEEP, LIGHT_SLEEP, AWAKE}
          [] s = NO_BREATHING -> {DEEP_SLEEP, LIGHT_SLEEP, AWAKE}
          [] s = DEEP_SLEEP -> {LIGHT_SLEEP, SPASM, NO_BREATHING, AWAKE}
          [] s = LIGHT_SLEEP -> {DEEP_SLEEP, SPASM, NO_BREATHING, AWAKE}
          [] s = SPASM -> {DEEP_SLEEP, LIGHT_SLEEP, AWAKE}
          [] s = AWAKE -> {DEEP_SLEEP, LIGHT_SLEEP}]

-----------------------------------------------------------------------------
(* class SleepManager: session state *)

\* _reset_session: every field it assigns; uuid4 yields an id never used before
reset_session(s) ==
    [session_id |-> s.session_id + 1,
     session_start_time |-> None,
     current_state |-> UNKNOWN,
     motion_buffer |-> <<>>,
     state_start_time |-> 0,
     pending_state |-> NoState,
     pending_state_time |-> None,
     spasm_start_time |-> None,
     pre_spasm_state |-> NoState,
     current_phase |-> "unknown",
     phase_start_time |-> 0,
     total_sleep_seconds |-> 0,
     deep_sleep_seconds |-> 0,
     light_sleep_seconds |-> 0,
     last_sleep_start |-> None,
     wake_up_count |-> 0,
     spasm_count |-> 0,
     micro_arousals |-> 0,
     sleep_cycles |-> <<>>,
     current_cycle_start |-> None,
     events |-> <<>>,
     last_update_time |-> 0]

\* __init__
SleepManagerInit == reset_session([session_id |-> 0])

-----------------------------------------------------------------------------
(* SleepManager._clean_buffer and _analyze_buffer *)

\* a faulty _clean_buffer loop, an "if" in place of the "while": at most one
\* entry is dropped
DropOlder_once(buf, cutoff) ==
    IF buf # <<>> /\ buf[1][1] < cutoff THEN Tail(buf) ELSE buf

RECURSIVE DropOlder(_, _)
\* the while loop of _clean_buffer: popleft while the oldest entry is older than cutoff
DropOlder(buf, cutoff) ==
    IF buf # <<>> /\ buf[1][1] < cutoff THEN DropOlder(Tail(buf), cutoff) ELSE buf

clean_buffer(buf, thr, current_time) == DropOlder(buf, current_time - thr.BUFFER_DURATION)

\* [s for t, s in motion_buffer if t >= start]
ScoresSince(buf, start) ==
    LET keep == SelectSeq(buf, LAMBDA e : e[1] >= start)
    IN  [i \in 1..Len(keep) |-> keep[i][2]]

\* sum(1 for s in window_scores if s > MOVEMENT_THRESHOLD)
HighCount(scores, thr) == Len(SelectSeq(scores, LAMBDA x : x > thr.MOVEMENT_THRESHOLD))

\* is_no_motion = mean_score < NO_MOTION_THRESHOLD (the mean of no sample is 0)
IsNoMotion(window_scores, thr) ==
    IF window_scores = <<>> THEN 0 < thr.NO_MOTION_THRESHOLD
    ELSE MeanLess(SeqSum(window_scores), Len(window_scores), thr.NO_MOTION_THRESHOLD)

\* _analyze_buffer: the statistics the classifier and get_stats read.  The mean
\* is mean_sum / sample_count (0 when the window is empty), the ratio is
\* high_count / ratio_den; std is read by no decision and is left out.
analyze_buffer(buf, b, thr, current_time) ==
    LET window_scores == ScoresSince(buf, current_time - thr.ANALYSIS_WINDOW)
        spasm_scores == ScoresSince(buf, current_time - thr.SPASM_WINDOW)
    IN  [mean_sum |-> SeqSum(window_scores),
         sample_count |-> Len(window_scores),
         max |-> IF window_scores = <<>> THEN 0 ELSE SeqMax(window_scores),
         min |-> IF window_scores = <<>> THEN 0 ELSE SeqMin(window_scores),
         high_count |-> HighCount(window_scores, thr),
         ratio_den |-> IF Len(window_scores) > 1 THEN Len(window_scores) ELSE 1,
         is_no_motion |-> IsNoMotion(window_scores, thr),
         spasm_max |-> IF spasm_scores = <<>> THEN 0 ELSE SeqMax(spasm_scores),
         current_score |-> IF buf = <<>> THEN 0 ELSE buf[Len(buf)][2],
         sleep_phase |-> get_sleep_phase(b)]

\* mean > t and mean < t on an analysis
AnalysisMeanGreater(a, t) ==
    IF a.sample_count = 0 THEN 0 > t ELSE MeanGreater(a.mean_sum, a.sample_count, t)

AnalysisMeanLess(a, t) ==
    IF a.sample_count = 0 THEN 0 < t ELSE MeanLess(a.mean_sum, a.sample_count, t)

-----------------------------------------------------------------------------
(* SleepManager._determine_state *)

\* Priority 2: high_ratio > 0.5 and mean > MOVEMENT_THRESHOLD
IsSustainedMovement(a, thr) ==
    2 * a.high_count > a.ratio_den /\ AnalysisMeanGreater(a, thr.MOVEMENT_THRESHOLD)

\* Priority 3: spasm_max > AWAKE_THRESHOLD and high_ratio < 0.3, during sleep
IsSpasm(a, current_state, thr) ==
    /\ current_state \in {DEEP_SLEEP, LIGHT_SLEEP, SPASM}
    /\ a.spasm_max > thr.AWAKE_THRESHOLD
    /\ 10 * a.high_count < 3 * a.ratio_den

\* a faulty Priority 4 that keeps the current state, UNKNOWN included, when the
\* breathing phase is unknown
PhaseState_keeps_unknown(sleep_phase, current_state) ==
    IF sleep_phase = "deep" THEN DEEP_SLEEP
    ELSE IF sleep_phase \in {"light", "transitional"} THEN LIGHT_SLEEP
    ELSE current_state

\* Priority 4: the state the breathing phase stands for
PhaseState(sleep_phase, current_state) ==
    IF sleep_phase = "deep" THEN DEEP_SLEEP
    ELSE IF sleep_phase \in {"light", "transitional"} THEN LIGHT_SLEEP
    ELSE IF current_state = UNKNOWN THEN LIGHT_SLEEP ELSE current_state

\* a faulty _determine_state that looks for sustained movement first and for
\* no motion second
determine_state_movement_first(a, current_state, thr) ==
    IF IsSustainedMovement(a, thr) THEN AWAKE
    ELSE IF a.is_no_motion THEN NO_BREATHING
    ELSE IF IsSpasm(a, current_state, thr) THEN SPASM
    ELSE IF AnalysisMeanLess(a, thr.AWAKE_THRESHOLD) THEN PhaseState(a.sleep_phase, current_state)
    ELSE IF current_state # UNKNOWN THEN current_state ELSE LIGHT_SLEEP

determine_state(a, current_state, thr) ==
    IF a.is_no_motion THEN NO_BREATHING
    ELSE IF IsSustainedMovement(a, thr) THEN AWAKE
    ELSE IF IsSpasm(a, current_state, thr) THEN SPASM
    ELSE IF AnalysisMeanLess(a, thr.AWAKE_THRESHOLD) THEN PhaseState(a.sleep_phase, current_state)
    ELSE IF current_state # UNKNOWN THEN current_state ELSE LIGHT_SLEEP

-----------------------------------------------------------------------------
(* SleepManager._execute_transition.  The operators below work on the bundle
   m = [sm, ba, log]: the manager, its analyzer and the transition log. *)

\* a faulty wake-up tracking that leaves the sleep interval open
TrackWakeUp_keeps_interval(s, current_time) ==
    LET s1 == [s EXCEPT !.wake_up_count = @ + 1]
    IN  IF s.last_sleep_start = None THEN s1
        ELSE LET s2 == [s1 EXCEPT
                          !.events = Append(@, SleepEvent("wake_up", current_time,
                                        [sleep_duration |-> current_time - s.last_sleep_start]))]
             IN  IF s.current_cycle_start = None THEN s2
                 ELSE [s2 EXCEPT
                          !.sleep_cycles = Append(@, [start |-> s.current_cycle_start,
                                                      end |-> current_time,
                                                      duration |-> current_time - s.current_cycle_start]),
                          !.current_cycle_start = None]

\* "Track wake up": the body of the branch old in (DEEP, LIGHT) and new = AWAKE
TrackWakeUp(s, current_time) ==
    LET s1 == [s EXCEPT !.wake_up_count = @ + 1]
    IN  IF s.last_sleep_start = None THEN s1
        ELSE LET s2 == [s1 EXCEPT
                          !.events = Append(@, SleepEvent("wake_up", current_time,
                                        [sleep_duration |-> current_time - s.last_sleep_start])),
                          !.last_sleep_start = None]
             IN  IF s.current_cycle_start = None THEN s2
                 ELSE [s2 EXCEPT
                          !.sleep_cycles = Append(@, [start |-> s.current_cycle_start,
                                                      end |-> current_time,
                                                      duration |-> current_time - s.current_cycle_start]),
                          !.current_cycle_start = None]

\* a faulty fell-asleep tracking that opens the sleep interval and no cycle
TrackFellAsleep_no_cycle(s, current_time) ==
    [s EXCEPT !.events = Append(@, SleepEvent("fell_asleep", current_time, NoData)),
              !.last_sleep_start = current_time]

\* "Track fell asleep"
TrackFellAsleep(s, current_time) ==
    [s EXCEPT !.events = Append(@, SleepEvent("fell_asleep", current_time, NoData)),
              !.last_sleep_start = current_time,
              !.current_cycle_start = current_time]

\* a faulty "Track spasm" that does not record the state the spasm interrupted
TrackSpasm_no_pre_state(s, old_state, current_time) ==
    [s EXCEPT !.spasm_start_time = current_time,
              !.spasm_count = @ + 1,
              !.events = Append(@, SleepEvent("spasm", current_time, NoData))]

\* "Track spasm"
\* a faulty spasm tracking that does not count the spasm
TrackSpasm_uncounted(s, old_state, current_time) ==
    [s EXCEPT !.spasm_start_time = current_time,
              !.pre_spasm_state = old_state,
              !.events = Append(@, SleepEvent("spasm", current_time, NoData))]

TrackSpasm(s, old_state, current_time) ==
    [s EXCEPT !.spasm_start_time = current_time,
              !.pre_spasm_state = old_state,
              !.spasm_count = @ + 1,
              !.events = Append(@, SleepEvent("spasm", current_time, NoData))]

\* a faulty phase tracking that reports every commit between two sleep states
TrackPhaseChange_any_sleep_state(s, old_state, new_state, current_time) ==
    IF old_state \in {DEEP_SLEEP, SPASM} /\ new_state = LIGHT_SLEEP
    THEN [s EXCEPT !.events = Append(@, SleepEvent("phase_change", current_time,
                                          [from |-> "deep", to |-> "light"]))]
    ELSE IF old_state \in {LIGHT_SLEEP, SPASM} /\ new_state = DEEP_SLEEP
    THEN [s EXCEPT !.events = Append(@, SleepEvent("phase_change", current_time,
                                          [from |-> "light", to |-> "deep"]))]
    ELSE s

\* "Track sleep phase change"
TrackPhaseChange(s, old_state, new_state, current_time) ==
    IF old_state = DEEP_SLEEP /\ new_state = LIGHT_SLEEP
    THEN [s EXCEPT !.events = Append(@, SleepEvent("phase_change", current_time,
                                          [from |-> "deep", to |-> "light"]))]
    ELSE IF old_state = LIGHT_SLEEP /\ new_state = DEEP_SLEEP
    THEN [s EXCEPT !.events = Append(@, SleepEvent("phase_change", current_time,
                                          [from |-> "light", to |-> "deep"]))]
    ELSE s

\* "Track no breathing alert"
TrackNoBreathing(s, new_state, current_time) ==
    IF new_state = NO_BREATHING
    THEN [s EXCEPT !.events = Append(@, SleepEvent("no_breathing_alert", current_time, NoData))]
    ELSE s

\* a faulty commit that leaves the confirmed candidate pending
CommitState_keeps_pending(s, new_state, current_time) ==
    [s EXCEPT !.current_state = new_state,
              !.state_start_time = current_time]

\* "Execute transition": the four assignments that commit the new state
CommitState(s, new_state, current_time) ==
    [s EXCEPT !.current_state = new_state,
              !.state_start_time = current_time,
              !.pending_state = NoState,
              !.pending_state_time = None]

execute_transition(m, new_state, current_time, reason) ==
    LET old_state == m.sm.current_state
        s1 == IF new_state = SPASM THEN TrackSpasm(m.sm, old_state, current_time) ELSE m.sm
        s2 == IF old_state \in {DEEP_SLEEP, LIGHT_SLEEP} /\ new_state = AWAKE
              THEN TrackWakeUp(s1, current_time) ELSE s1
        s3 == IF old_state \in {AWAKE, UNKNOWN} /\ new_state \in {DEEP_SLEEP, LIGHT_SLEEP}
              THEN TrackFellAsleep(s2, current_time) ELSE s2
        s4 == TrackPhaseChange(s3, old_state, new_state, current_time)
        s5 == TrackNoBreathing(s4, new_state, current_time)
    IN  [m EXCEPT !.sm = CommitState(s5, new_state, current_time),
                  !.log = Append(@, [from |-> old_state, to |-> new_state,
                                     reason |-> reason, time |-> current_time])]

-----------------------------------------------------------------------------
(* SleepManager._handle_transition *)

\* a faulty _find_valid_transition that lets every target through
find_valid_transition_unchecked(current_state, target_state) == target_state

\* a faulty _find_valid_transition that lets the alert out of AWAKE
find_valid_transition_alert_passes(current_state, target_state) ==
    IF current_state = AWAKE
    THEN IF target_state = NO_BREATHING THEN NO_BREATHING ELSE LIGHT_SLEEP
    ELSE IF current_state = NO_BREATHING THEN target_state
    ELSE current_state

\* a faulty _find_valid_transition without its AWAKE branch
find_valid_transition_no_awake_branch(current_state, target_state) ==
    IF current_state = NO_BREATHING THEN target_state ELSE current_state

find_valid_transition(current_state, target_state) ==
    IF current_state = AWAKE THEN LIGHT_SLEEP
    ELSE IF current_state = NO_BREATHING THEN target_state
    ELSE current_state

\* a faulty _get_confirmation_time without the NO_BREATHING branch: the alert
\* is confirmed after the default time
get_confirmation_time_no_alert_delay(from_state, to_state, thr) ==
    IF to_state = SPASM THEN CONFIRM_SPASM
    ELSE IF to_state = AWAKE THEN thr.CONFIRM_AWAKE_SECONDS
    ELSE IF from_state = DEEP_SLEEP /\ to_state = LIGHT_SLEEP THEN thr.CONFIRM_PHASE_CHANGE_SECONDS
    ELSE IF from_state = LIGHT_SLEEP /\ to_state = DEEP_SLEEP THEN thr.CONFIRM_PHASE_CHANGE_SECONDS
    ELSE IF from_state = AWAKE THEN thr.CONFIRM_SLEEP_SECONDS
    ELSE CONFIRM_DEFAULT

\* a faulty _get_confirmation_time that leaves AWAKE after the wake-up time
get_confirmation_time_short_sleep_delay(from_state, to_state, thr) ==
    IF to_state = SPASM THEN CONFIRM_SPASM
    ELSE IF to_state = NO_BREATHING THEN thr.CONFIRM_NO_BREATHING_SECONDS
    ELSE IF to_state = AWAKE THEN thr.CONFIRM_AWAKE_SECONDS
    ELSE IF from_state = DEEP_SLEEP /\ to_state = LIGHT_SLEEP THEN thr.CONFIRM_PHASE_CHANGE_SECONDS
    ELSE IF from_state = LIGHT_SLEEP /\ to_state = DEEP_SLEEP THEN thr.CONFIRM_PHASE_CHANGE_SECONDS
    ELSE IF from_state = AWAKE THEN thr.CONFIRM_AWAKE_SECONDS
    ELSE CONFIRM_DEFAULT

\* a faulty _get_confirmation_time that confirms a change of phase 3 s early
get_confirmation_time_early_phase_change(from_state, to_state, thr) ==
    IF to_state = SPASM THEN CONFIRM_SPASM
    ELSE IF to_state = NO_BREATHING THEN thr.CONFIRM_NO_BREATHING_SECONDS
    ELSE IF to_state = AWAKE THEN thr.CONFIRM_AWAKE_SECONDS
    ELSE IF from_state = DEEP_SLEEP /\ to_state = LIGHT_SLEEP
    THEN thr.CONFIRM_PHASE_CHANGE_SECONDS - CONFIRM_DEFAULT
    ELSE IF from_state = LIGHT_SLEEP /\ to_state = DEEP_SLEEP
    THEN thr.CONFIRM_PHASE_CHANGE_SECONDS - CONFIRM_DEFAULT
    ELSE IF from_state = AWAKE THEN thr.CONFIRM_SLEEP_SECONDS
    ELSE CONFIRM_DEFAULT

\* a faulty _get_confirmation_time whose phase-change delay holds in one
\* direction only: LIGHT_SLEEP to DEEP_SLEEP takes the default time
get_confirmation_time_one_way_phase_change(from_state, to_state, thr) ==
    IF to_state = SPASM THEN CONFIRM_SPASM
    ELSE IF to_state = NO_BREATHING THEN thr.CONFIRM_NO_BREATHING_SECONDS
    ELSE IF to_state = AWAKE THEN thr.CONFIRM_AWAKE_SECONDS
    ELSE IF from_state = DEEP_SLEEP /\ to_state = LIGHT_SLEEP THEN thr.CONFIRM_PHASE_CHANGE_SECONDS
    ELSE IF from_state = AWAKE THEN thr.CONFIRM_SLEEP_SECONDS
    ELSE CONFIRM_DEFAULT

get_confirmation_time(from_state, to_state, thr) ==
    IF to_state = SPASM THEN CONFIRM_SPASM
    ELSE IF to_state = NO_BREATHING THEN thr.CONFIRM_NO_BREATHING_SECONDS
    ELSE IF to_state = AWAKE THEN thr.CONFIRM_AWAKE_SECONDS
    ELSE IF from_state = DEEP_SLEEP /\ to_state = LIGHT_SLEEP THEN thr.CONFIRM_PHASE_CHANGE_SECONDS
    ELSE IF from_state = LIGHT_SLEEP /\ to_state = DEEP_SLEEP THEN thr.CONFIRM_PHASE_CHANGE_SECONDS
    ELSE IF from_state = AWAKE THEN thr.CONFIRM_SLEEP_SECONDS
    ELSE CONFIRM_DEFAULT

\* "Check if transition is valid": the target after the remap
RemapTarget(current_state, target_state) ==
    IF target_state \notin VALID_TRANSITIONS[current_state] /\ target_state # current_state
    THEN find_valid_transition(current_state, target_state)
    ELSE target_state

\* a faulty "Same state" branch that ends a spasm without waiting for SPASM_WINDOW
SameState_no_window(m, thr, current_time) ==
    LET s == m.sm
        m1 == IF s.current_state = SPASM
              THEN execute_transition(m,
                       IF s.pre_spasm_state # NoState THEN s.pre_spasm_state ELSE LIGHT_SLEEP,
                       current_time, "spasm_ended")
              ELSE m
    IN  [m1 EXCEPT !.sm.pending_state = NoState, !.sm.pending_state_time = None]

\* a faulty "Same state" branch that ends every spasm in LIGHT_SLEEP
SameState_reverts_to_light(m, thr, current_time) ==
    LET s == m.sm
        m1 == IF /\ s.current_state = SPASM
                 /\ current_time - s.spasm_start_time > thr.SPASM_WINDOW
              THEN execute_transition(m, LIGHT_SLEEP, current_time, "spasm_ended")
              ELSE m
    IN  [m1 EXCEPT !.sm.pending_state = NoState, !.sm.pending_state_time = None]

\* "Same state - handle pending"
SameState(m, thr, current_time) ==
    LET s == m.sm
        m1 == IF /\ s.current_state = SPASM
                 /\ current_time - s.spasm_start_time > thr.SPASM_WINDOW
              THEN execute_transition(m,
                       IF s.pre_spasm_state # NoState THEN s.pre_spasm_state ELSE LIGHT_SLEEP,
                       current_time, "spasm_ended")
              ELSE m
    IN  [m1 EXCEPT !.sm.pending_state = NoState, !.sm.pending_state_time = None]

\* a faulty pending step that keeps the timer of the candidate it replaces
PendingStep_keep_timer(m, target, thr, current_time) ==
    IF m.sm.pending_state = target
    THEN IF current_time - m.sm.pending_state_time
                >= get_confirmation_time(m.sm.current_state, target, thr)
         THEN execute_transition(m, target, current_time, "confirmed")
         ELSE m
    ELSE [m EXCEPT !.sm.pending_state = target,
                   !.sm.pending_state_time = IF @ = None THEN current_time ELSE @]

\* "Start or continue pending transition"
PendingStep(m, target, thr, current_time) ==
    IF m.sm.pending_state = target
    THEN IF current_time - m.sm.pending_state_time
                >= get_confirmation_time(m.sm.current_state, target, thr)
         THEN execute_transition(m, target, current_time, "confirmed")
         ELSE m
    ELSE [m EXCEPT !.sm.pending_state = target, !.sm.pending_state_time = current_time]

handle_transition(m, target_state, thr, current_time) ==
    LET target == RemapTarget(m.sm.current_state, target_state)
    IN  IF target = m.sm.current_state
        THEN SameState(m, thr, current_time)
        ELSE PendingStep(m, target, thr, current_time)

-----------------------------------------------------------------------------
(* SleepManager._update_metrics and update *)

\* a faulty _update_metrics that counts no sleep during a spasm
update_metrics_spasm_uncounted(s, current_time) ==
    IF s.last_update_time > 0
    THEN LET delta == current_time - s.last_update_time
         IN  IF s.current_state = DEEP_SLEEP
             THEN [s EXCEPT !.deep_sleep_seconds = @ + delta, !.total_sleep_seconds = @ + delta]
             ELSE IF s.current_state = LIGHT_SLEEP
             THEN [s EXCEPT !.light_sleep_seconds = @ + delta, !.total_sleep_seconds = @ + delta]
             ELSE s
    ELSE s

update_metrics(s, current_time) ==
    IF s.last_update_time > 0
    THEN LET delta == current_time - s.last_update_time
         IN  IF s.current_state = DEEP_SLEEP
             THEN [s EXCEPT !.deep_sleep_seconds = @ + delta, !.total_sleep_seconds = @ + delta]
             ELSE IF s.current_state \in {LIGHT_SLEEP, SPASM}
             THEN [s EXCEPT !.light_sleep_seconds = @ + delta, !.total_sleep_seconds = @ + delta]
             ELSE s
    ELSE s

\* "Auto-start session" and "Add to buffer" (float() of an integer score is that integer)
Ingest(s, motion_score, current_time) ==
    [s EXCEPT !.session_start_time = IF @ = None THEN current_time ELSE @,
              !.motion_buffer = Append(@, <<current_time, motion_score>>)]

\* update(motion_score) at time current_time, on the bundle m
update(m, thr, motion_score, current_time) ==
    LET s1 == Ingest(m.sm, motion_score, current_time)
        b1 == process_motion(m.ba, motion_score, current_time)
        s2 == [s1 EXCEPT !.motion_buffer = clean_buffer(@, thr, current_time)]
        analysis == analyze_buffer(s2.motion_buffer, b1, thr, current_time)
        target_state == determine_state(analysis, s2.current_state, thr)
        m3 == handle_transition([m EXCEPT !.sm = s2, !.ba = b1], target_state, thr, current_time)
        s4 == update_metrics(m3.sm, current_time)
    IN  [m3 EXCEPT !.sm = [s4 EXCEPT !.last_update_time = current_time]]

-----------------------------------------------------------------------------
(* SleepManager._calculate_sleep_quality, get_stats, get_recent_events *)

Hour == 3600 * Second

Min2(a, b) == IF a < b THEN a ELSE b

Max2(a, b) == IF a > b THEN a ELSE b

\* Factor 1: the penalty for the ratio deep / max(total, 1 second)
DeepRatioPenalty(deep, total) ==
    LET den == Max2(total, Second)
    IN  IF 5 * deep < den THEN 20
        ELSE IF 20 * deep < 7 * den THEN 10
        ELSE IF 5 * deep > 3 * den THEN 5
        ELSE 0

\* a faulty Factor 2 without its cap: int(max(0, ...) * 10)
WakePenalty_uncapped(wake_up_count, session_duration) ==
    LET excess10 == 10 * wake_up_count * Hour - 10 * session_duration
    IN  IF excess10 <= 0 THEN 0 ELSE excess10 \div Hour

\* Factor 2: min(30, int(max(0, wake_up_count - session_duration / 3600) * 10))
WakePenalty(wake_up_count, session_duration) ==
    LET excess10 == 10 * wake_up_count * Hour - 10 * session_duration
    IN  IF excess10 <= 0 THEN 0 ELSE Min2(30, excess10 \div Hour)

\* Factor 3
SpasmPenalty(spasm_count) == IF spasm_count > 10 THEN Min2(10, spasm_count - 10) ELSE 0

\* Factor 4
VariabilityPenalty(b) == IF RoundedVariabilityAbove04(b) THEN 10 ELSE 0

\* a faulty _calculate_sleep_quality that only looks at the session duration
\* before it scores
calculate_sleep_quality_no_sleep_floor(s, b, session_duration) ==
    IF session_duration < 60 * Second THEN 0
    ELSE Max2(0, Min2(100, 100 - DeepRatioPenalty(s.deep_sleep_seconds, s.total_sleep_seconds)
                               - WakePenalty(s.wake_up_count, session_duration)
                               - SpasmPenalty(s.spasm_count)
                               - VariabilityPenalty(b)))

calculate_sleep_quality(s, b, session_duration) ==
    IF session_duration < 60 * Second \/ s.total_sleep_seconds < 60 * Second THEN 0
    ELSE Max2(0, Min2(100, 100 - DeepRatioPenalty(s.deep_sleep_seconds, s.total_sleep_seconds)
                               - WakePenalty(s.wake_up_count, session_duration)
                               - SpasmPenalty(s.spasm_count)
                               - VariabilityPenalty(b)))

get_quality_rating(score) ==
    IF score >= 85 THEN "Excellent"
    ELSE IF score >= 70 THEN "Good"
    ELSE IF score >= 50 THEN "Fair"
    ELSE IF score >= 30 THEN "Poor"
    ELSE "Very Poor"

\* get_stats at time current_time: the fields that are not plain copies of the
\* breathing statistics.  int() of a number of seconds is the floor of ticks / 2.
get_stats(s, b, thr, current_time) ==
    LET session_duration ==
            IF s.session_start_time # None THEN current_time - s.session_start_time ELSE 0
        analysis == analyze_buffer(s.motion_buffer, b, thr, current_time)
    IN  [current_state |-> s.current_state,
         breathing_detected |-> s.current_state \in {DEEP_SLEEP, LIGHT_SLEEP},
         state_duration_seconds |->
             IF s.state_start_time > 0 THEN (current_time - s.state_start_time) \div Second ELSE 0,
         session_duration_seconds |-> session_duration \div Second,
         total_sleep_minutes |-> s.total_sleep_seconds \div (60 * Second),
         total_sleep_seconds |-> s.total_sleep_seconds \div Second,
         deep_sleep_seconds |-> s.deep_sleep_seconds \div Second,
         light_sleep_seconds |-> s.light_sleep_seconds \div Second,
         sleep_quality_score |-> calculate_sleep_quality(s, b, session_duration),
         deep_sleep_percent |->
             (100 * s.deep_sleep_seconds) \div Max2(s.total_sleep_seconds, Second),
         light_sleep_percent |->
             (100 * s.light_sleep_seconds) \div Max2(s.total_sleep_seconds, Second),
         wake_ups |-> s.wake_up_count,
         spasms |-> s.spasm_count,
         sleep_cycles_completed |-> Len(s.sleep_cycles),
         breathing_phase |-> IF s.motion_buffer # <<>> THEN analysis.sleep_phase ELSE "unknown",
         breaths_detected |-> IF s.motion_buffer # <<>> THEN Len(b.breath_timestamps) ELSE 0,
         last_motion_score |-> IF s.motion_buffer # <<>> THEN analysis.current_score ELSE 0,
         events_count |-> Len(s.events),
         pending_transition |-> s.pending_state]

\* get_recent_events(count): self.events[-count:] if len(self.events) > count else self.events
\* (the slice events[-0:] is the whole list)
RecentSlice(events, count) ==
    IF Len(events) > count
    THEN IF count = 0 THEN events
         ELSE SubSeq(events, Len(events) - count + 1, Len(events))
    ELSE events

\* the dictionary get_recent_events returns for an event
EventDict(e) == [type |-> e.event_type, timestamp |-> e.timestamp, data |-> e.data]

get_recent_events(events, count) ==
    [i \in 1..Len(RecentSlice(events, count)) |-> EventDict(RecentSlice(events, count)[i])]

-----------------------------------------------------------------------------
(* SleepManager.start_session, stop_session, _save_to_history, set_thresholds *)

\* a faulty start_session that does not call _reset_session
start_session_no_reset(s, current_time) ==
    [s EXCEPT !.session_start_time = current_time]

start_session(s, current_time) ==
    [reset_session(s) EXCEPT !.session_start_time = current_time]

\* the first three lines of stop_session: close the open sleep interval
CloseSleepInterval(s, current_time) ==
    IF s.last_sleep_start # None
    THEN [s EXCEPT !.total_sleep_seconds = @ + (current_time - s.last_sleep_start),
                   !.last_sleep_start = None]
    ELSE s

\* the entry _save_to_history builds (the report is the one of get_sleep_report)
HistoryEntry(s, b, thr, current_time) ==
    LET stats == get_stats(s, b, thr, current_time)
    IN  [id |-> s.session_id,
         timestamp |-> s.session_start_time,
         duration_seconds |-> s.total_sleep_seconds \div Second,
         quality_score |-> stats.sleep_quality_score,
         quality_rating |-> get_quality_rating(stats.sleep_quality_score)]

\* a faulty cap that keeps the first 100 entries, history[:100]
save_to_history_keep_oldest(hist, entry) ==
    LET appended == Append(hist, entry)
    IN  IF Len(appended) > MaxHistory THEN SubSeq(appended, 1, MaxHistory) ELSE appended

\* _save_to_history, "Add new entry" and "Keep only last 100 entries", on the
\* loaded history
save_to_history(hist, entry) ==
    LET appended == Append(hist, entry)
    IN  IF Len(appended) > MaxHistory THEN LastN(appended, MaxHistory) ELSE appended

\* What the file system does to one _save_to_history.  load: "ok", "failed"
\* (the file is missing, or json.load raises JSONDecodeError or IOError, which
\* _load_history turns into []) or "raises" (any other exception, which
\* _load_history lets through).  write: "ok", "open_fails" (the file is left as
\* it was) or "dump_fails" (the file was truncated by open(..., 'w') and is
\* not JSON: every later load reads it as []).
IOOutcomes ==
    [load : {"ok", "failed", "raises"}, write : {"ok", "open_fails", "dump_fails"}]

IOSuccess == [load |-> "ok", write |-> "ok"]

\* _load_history: history is what the file holds
load_history(hist, io) == IF io.load = "ok" THEN hist ELSE <<>>

\* the body of the try block of _save_to_history: the file afterwards, and
\* whether an exception left the block
SaveAttempt(hist, entry, io) ==
    IF io.load = "raises" THEN [history |-> hist, raised |-> TRUE]
    ELSE IF io.write = "ok"
    THEN [history |-> save_to_history(load_history(hist, io), entry), raised |-> FALSE]
    ELSE IF io.write = "open_fails" THEN [history |-> hist, raised |-> TRUE]
    ELSE [history |-> <<>>, raised |-> TRUE]

\* a faulty _save_to_history without its "except Exception": the exception
\* leaves the method
TrySave_uncaught(hist, entry, io) == SaveAttempt(hist, entry, io)

\* _save_to_history with its "except Exception", which logs and goes on
TrySave(hist, entry, io) == [SaveAttempt(hist, entry, io) EXCEPT !.raised = FALSE]

\* stop_session "saves if the session had meaningful data"
ShouldSave(s) == s.session_start_time # None /\ s.total_sleep_seconds >= MinSleepToSave

\* the upper-case name key.upper() of the keyword names the callers use
UpperName ==
    [awake_threshold |-> "AWAKE_THRESHOLD",
     movement_threshold |-> "MOVEMENT_THRESHOLD",
     no_motion_threshold |-> "NO_MOTION_THRESHOLD",
     breathing_min |-> "BREATHING_MIN",
     breathing_max |-> "BREATHING_MAX",
     history_file |-> "HISTORY_FILE"]

RECURSIVE ApplyOverrides(_, _, _)
\* the for loop of set_thresholds over the keyword arguments kwargs (a function
\* from names to values, None for a null value), keys being the names left
ApplyOverrides(thr, kwargs, keys) ==
    IF keys = {} THEN thr
    ELSE LET key == CHOOSE k \in keys : TRUE
             next == IF UpperName[key] \in DOMAIN thr /\ kwargs[key] # None
                     THEN [thr EXCEPT ![UpperName[key]] = kwargs[key]]
                     ELSE thr
         IN  ApplyOverrides(next, kwargs, keys \ {key})

set_thresholds(thr, kwargs) == ApplyOverrides(thr, kwargs, DOMAIN kwargs)

-----------------------------------------------------------------------------------------------------------------------------------------------------
(* Observation of the calls.  obs is written by every call and read by none:
   it records the last call (its name, its argument, its return value and the
   engine as it was when the call began), what the last update saw and
   decided, the run of consecutive updates that produced one candidate from
   one state, the run of no-motion updates since the session began, the number
   of counted updates that saw no motion, and the length the transition log
   had when the session began. *)

ObsInit ==
    [calls |-> 0, op |-> "init", score |-> 0, ret |-> NoState,
     before |-> [now |-> 0, sm |-> reset_session([session_id |-> 0 - 1]),
                 ba |-> BreathingAnalyzerInit, log |-> <<>>,
                 thresholds |-> DefaultThresholds, history |-> NoHistory],
     target |-> NoState, remapped |-> NoState, is_no_motion |-> FALSE,
     streak_cand |-> NoState, streak_from |-> NoState, streak_since |-> None, streak_len |-> 0,
     nm_run |-> "fresh", nm_since |-> None, nm_calls |-> 0, asleep |-> 0, log_start |-> 0]

-----------------------------------------------------------------------------
(* self.lock = threading.RLock(), and the threads that call the engine: the
   capture pipeline, which calls update, and the request handlers *)

NoThread == "none"

\* the capture pipeline calls update; of the request handlers one serves the
\* requests that change the engine and one those that read it
Producer == "producer"

Writer == "handler_1"

Reader == "handler_2"

Threads == {Producer, Writer, Reader}

Unlocked == [owner |-> NoThread, count |-> 0]

\* a faulty lock that lets every thread in
LockFree_unlocked(l, t) == TRUE

\* a faulty lock that is not reentrant: it blocks its own owner
LockFree_not_reentrant(l, t) == l.owner = NoThread

\* RLock.acquire blocks unless the lock is free or the caller owns it
LockFree(l, t) == l.owner = NoThread \/ l.owner = t

\* RLock.acquire, once it does not block
acquire(l, t) == [owner |-> t, count |-> l.count + 1]

\* RLock.release
release(l) == IF l.count <= 1 THEN Unlocked ELSE [l EXCEPT !.count = @ - 1]

NoMethod == "none"

\* a thread outside the engine.  Inside a method a thread holds the lock held
\* times, has stages to write (the states its statements leave behind, in
\* order) or a read to make, and has taken done steps of the body; torn_by
\* are the methods other threads were partway through when it read.
Idle ==
    [method |-> NoMethod, input |-> <<>>, calls |-> 0, held |-> 0, stages |-> <<>>,
     reads |-> 0, done |-> 0, torn_by |-> {}]

-----------------------------------------------------------------------------
\* the state as one record; the calls below map a state to the next one
State ==
    [now |-> now, sm |-> sm, ba |-> ba, thresholds |-> thresholds,
     history |-> history, log |-> log, obs |-> obs]

\* the engine takes the state st
Install(st) ==
    /\ now' = st.now
    /\ sm' = st.sm
    /\ ba' = st.ba
    /\ thresholds' = st.thresholds
    /\ history' = st.history
    /\ log' = st.log
    /\ obs' = st.obs

\* a call made while no other thread runs: from "with self.lock" to the end
\* of the method in one step, the lock free before and after
Assign(st) == Install(st) /\ UNCHANGED <<lock, threads>>

\* the variables hold the starting state st
Start(st) ==
    /\ now = st.now
    /\ sm = st.sm
    /\ ba = st.ba
    /\ thresholds = st.thresholds
    /\ history = st.history
    /\ log = st.log
    /\ obs = st.obs
    /\ lock = Unlocked
    /\ threads = [t \in Threads |-> Idle]

Before(st) ==
    [now |-> st.now, sm |-> st.sm, ba |-> st.ba, log |-> st.log,
     thresholds |-> st.thresholds, history |-> st.history]

\* the wall-clock time, up to t, that the session has spent in a sleep state
\* since its last update: the state does not change between two updates
AsleepSince(s, t) ==
    IF s.last_update_time > 0 /\ s.current_state \in {DEEP_SLEEP, LIGHT_SLEEP, SPASM}
    THEN t - s.last_update_time
    ELSE 0

\* what the update at time t of state st saw: recomputed from the state the
\* update started in
ObserveUpdate(st, motion_score, t, after) ==
    LET buf == clean_buffer(Append(st.sm.motion_buffer, <<t, motion_score>>), st.thresholds, t)
        b1 == process_motion(st.ba, motion_score, t)
        a == analyze_buffer(buf, b1, st.thresholds, t)
        target == determine_state(a, st.sm.current_state, st.thresholds)
        remapped == RemapTarget(st.sm.current_state, target)
        same == st.obs.streak_cand = remapped /\ st.obs.streak_from = st.sm.current_state
        nm == IF ~a.is_no_motion THEN "broken"
              ELSE IF st.obs.nm_run = "fresh" THEN "all" ELSE st.obs.nm_run
    IN  [calls |-> st.obs.calls + 1,
         op |-> "update",
         score |-> motion_score,
         ret |-> after.sm.current_state,
         before |-> Before(st),
         target |-> target,
         remapped |-> remapped,
         is_no_motion |-> a.is_no_motion,
         streak_cand |-> remapped,
         streak_from |-> st.sm.current_state,
         streak_since |-> IF same THEN st.obs.streak_since ELSE t,
         streak_len |-> IF same THEN st.obs.streak_len + 1 ELSE 1,
         nm_run |-> nm,
         nm_since |-> IF nm = "all" /\ st.obs.nm_run = "fresh" THEN t ELSE st.obs.nm_since,
         nm_calls |-> st.obs.nm_calls + (IF a.is_no_motion THEN 1 ELSE 0),
         asleep |-> st.obs.asleep + AsleepSince(st.sm, t),
         log_start |-> st.obs.log_start]

ObserveCall(st, op, ret) ==
    [st.obs EXCEPT !.calls = @ + 1, !.op = op, !.ret = ret, !.before = Before(st)]

-----
(* The calls of the engine, each on the whole state.  dt is the time that
   passed since the previous call. *)

CallUpdate(st, dt, motion_score) ==
    LET t == st.now + dt
        after == update([sm |-> st.sm, ba |-> st.ba, log |-> st.log],
                        st.thresholds, motion_score, t)
    IN  [st EXCEPT !.now = t, !.sm = after.sm, !.ba = after.ba, !.log = after.log,
                   !.obs = ObserveUpdate(st, motion_score, t, after)]

CallStartSession(st, dt) ==
    [st EXCEPT !.now = st.now + dt,
               !.sm = start_session(st.sm, st.now + dt),
               !.ba = BreathingAnalyzerInit,
               !.obs = [ObserveCall(st, "start_session", NoState) EXCEPT
                           !.streak_cand = NoState, !.streak_from = NoState,
                           !.streak_since = None, !.streak_len = 0,
                           !.nm_run = "fresh", !.nm_since = None, !.asleep = 0,
                           !.log_start = Len(st.log)]]

\* stop_session; its observed return value tells whether it returned or an
\* exception left it, and what the file system did
CallStopSession(st, dt, io) ==
    LET t == st.now + dt
        closed == CloseSleepInterval(st.sm, t)
        file == st.thresholds.HISTORY_FILE
        saved == IF ShouldSave(closed)
                 THEN TrySave(st.history[file],
                              HistoryEntry(closed, st.ba, st.thresholds, t), io)
                 ELSE [history |-> st.history[file], raised |-> FALSE]
    IN  [st EXCEPT !.now = t,
                   !.sm = closed,
                   !.history = [@ EXCEPT ![file] = saved.history],
                   !.obs = ObserveCall(st, "stop_session",
                                       [returned |-> ~saved.raised, io |-> io])]

CallSetThresholds(st, kwargs) ==
    [st EXCEPT !.thresholds = set_thresholds(@, kwargs),
               !.obs = ObserveCall(st, "set_thresholds", [kwargs |-> kwargs])]

\* a faulty get_stats that keeps the time of the call as the time of the last
\* update
CallGetStats_touches_update_time(st, dt) ==
    [st EXCEPT !.now = st.now + dt,
               !.sm.last_update_time = st.now + dt,
               !.obs = ObserveCall(st, "get_stats",
                                   get_stats(st.sm, st.ba, st.thresholds, st.now + dt))]

\* get_stats changes nothing; its return value is observed
CallGetStats(st, dt) ==
    [st EXCEPT !.now = st.now + dt,
               !.obs = ObserveCall(st, "get_stats",
                                   get_stats(st.sm, st.ba, st.thresholds, st.now + dt))]

\* get_sleep_report changes nothing; of its return value the embedded raw
\* stats, which the nested get_stats call returns, are observed
CallGetSleepReport(st, dt) ==
    [st EXCEPT !.now = st.now + dt,
               !.obs = ObserveCall(st, "get_sleep_report",
                                   get_stats(st.sm, st.ba, st.thresholds, st.now + dt))]

\* get_recent_events changes nothing; its argument and return value are observed
CallGetRecentEvents(st, count) ==
    [st EXCEPT !.obs = ObserveCall(st, "get_recent_events",
                                   [count |-> count,
                                    events |-> get_recent_events(st.sm.events, count)])]

-----------------------------------------------------------------------------
(* Starting states.  The engine is explored from the state after construction
   and from states a session reaches later; each of them is computed by
   running the updates of a fixed sample sequence from the constructed state. *)

Constructed ==
    [now |-> Second, sm |-> SleepManagerInit, ba |-> BreathingAnalyzerInit,
     thresholds |-> DefaultThresholds, history |-> NoHistory, log |-> <<>>, obs |-> ObsInit]

RECURSIVE RunUpdates(_, _)
RunUpdates(st, samples) ==
    IF samples = <<>> THEN st
    ELSE RunUpdates(CallUpdate(st, samples[1][1], samples[1][2]), Tail(samples))

\* the sample levels, placed by the thresholds they are compared with:
\* still (0, below NO_MOTION_THRESHOLD), quiet breathing (20000, inside the
\* breathing band), a breath peak (60000), movement (6000000) and a spike
\* (12000000, above AWAKE_THRESHOLD)
Still == DefaultThresholds.NO_MOTION_THRESHOLD - DefaultThresholds.BREATHING_LOW
Quiet == 2 * DefaultThresholds.BREATHING_LOW
Peak == BREATH_PEAK_THRESHOLD + DefaultThresholds.BREATHING_LOW
Moving == DefaultThresholds.MOVEMENT_THRESHOLD + 1000000
Spike == DefaultThresholds.AWAKE_THRESHOLD + 2000000

\* quiet breathing: a peak every 2 s, the last one after 2.5 s (five intervals
\* of low variability, so the breathing phase is "deep")
BreathingSamples ==
    <<<<0, Quiet>>,
      <<Second, Quiet>>, <<Second, Peak>>, <<Second, Quiet>>, <<Second, Peak>>,
      <<Second, Quiet>>, <<Second, Peak>>, <<Second, Quiet>>, <<Second, Peak>>,
      <<Second, Quiet>>, <<Second, Peak>>, <<Second, Quiet>>, <<Second + HalfSecond, Peak>>>>

\* ... DEEP_SLEEP confirmed after 30 s, a minute of sleep, three quiet samples
DeepSleepSamples ==
    BreathingSamples \o
    <<<<30 * Second, Quiet>>, <<12 * Second, Quiet>>, <<12 * Second, Quiet>>,
      <<Second, Quiet>>, <<Second, Quiet>>, <<Second, Quiet>>>>

\* ... a spike: SPASM is pending
SpikeSamples == DeepSleepSamples \o <<<<Second, Spike>>>>

\* ... SPASM confirmed half a second later
SpasmSamples == SpikeSamples \o <<<<HalfSecond, Quiet>>>>

\* breathing, then movement for 8 s: AWAKE
AwakeSamples == BreathingSamples \o <<<<11 * Second, Moving>>, <<8 * Second, Moving>>>>

\* LIGHT_SLEEP confirmed after 3 s without a breathing phase, and quiet samples
LightSleepSamples ==
    <<<<0, Quiet>>, <<3 * Second, Quiet>>, <<Second, Quiet>>, <<Second, Quiet>>>>

\* ... a spike and SPASM confirmed half a second later
LightSpasmSamples == LightSleepSamples \o <<<<Second, Spike>>, <<HalfSecond, Quiet>>>>

\* no motion for 12 s: NO_BREATHING
NoBreathingSamples == <<<<0, Still>>, <<12 * Second, Still>>>>

\* AWAKE, then a quiet sample 12 s later: DEEP_SLEEP is pending
DrowsySamples == AwakeSamples \o <<<<12 * Second, Quiet>>>>

\* the last three: LIGHT_SLEEP, then movement 12 s later, AWAKE is pending;
\* LIGHT_SLEEP, then quiet breathing, DEEP_SLEEP is pending for 24 s; and
\* LIGHT_SLEEP, then quiet breathing and a spike, SPASM is confirmed
StartingSamples ==
    {<<>>, LightSleepSamples, LightSpasmSamples, DeepSleepSamples, SpikeSamples,
     SpasmSamples, AwakeSamples, DrowsySamples, NoBreathingSamples,
     LightSleepSamples \o <<<<12 * Second, Moving>>>>,
     <<<<0, Quiet>>, <<3 * Second, Quiet>>>> \o Tail(BreathingSamples)
         \o <<<<12 * Second, Quiet>>, <<12 * Second, Quiet>>>>,
     <<<<0, Quiet>>, <<3 * Second, Quiet>>>> \o Tail(BreathingSamples)
         \o <<<<12 * Second, Quiet>>, <<Second, Quiet>>, <<Second, Quiet>>, <<Second, Quiet>>,
               <<Second, Spike>>, <<HalfSecond, Quiet>>>>}

\* a starting state: the state after the samples, with the call count at 0
StartingState(samples) ==
    LET st == RunUpdates(Constructed, samples)
    IN  [st EXCEPT !.obs.calls = 0, !.obs.nm_calls = 0]

-----------------------------------------------------------------------------
(* The specification of the engine *)

\* the time between two calls: 0.25 s, 3 s, 5.5 s, 12 s
Gaps == {HalfSecond \div 2, 3 * Second, 5 * Second + HalfSecond, 12 * Second}

Scores == {Still, Quiet, Peak, Moving, Spike}

\* the keyword arguments of the calls of set_thresholds
ThresholdCalls ==
    {[awake_threshold |-> 999999999],
     [breathing_min |-> 5000, breathing_max |-> None, awake_threshold |-> None],
     [no_motion_threshold |-> 20000000],
     [history_file |-> OtherHistoryFile]}

Init == \E samples \in StartingSamples : Start(StartingState(samples))

Update ==
    /\ obs.calls < MaxCalls
    /\ \E dt \in Gaps, motion_score \in Scores :
          \E nxt \in {CallUpdate(State, dt, motion_score)} : Assign(nxt)

StartSession ==
    /\ obs.calls < MaxCalls
    /\ \E nxt \in {CallStartSession(State, 0)} : Assign(nxt)

StopSession ==
    /\ obs.calls < MaxCalls
    /\ \E io \in IOOutcomes :
          \E nxt \in {CallStopSession(State, 0, io)} : Assign(nxt)

SetThresholds ==
    /\ obs.calls < MaxCalls
    /\ \E kwargs \in ThresholdCalls :
          \E nxt \in {CallSetThresholds(State, kwargs)} : Assign(nxt)

GetStats ==
    /\ obs.calls < MaxCalls
    /\ \E nxt \in {CallGetStats(State, 0)} : Assign(nxt)

Next == Update \/ StartSession \/ StopSession \/ SetThresholds \/ GetStats

Spec == Init /\ [][Next]_vars

-----------------------------------------------------------------------------
(* Properties of the engine.  They are stated on the state after a call and
   on what obs recorded of it: the state the call started in (obs.before),
   the classifier's target, the candidate after the remap, and the run of
   consecutive updates that produced the same candidate from the same state. *)

LastWasUpdate == obs.op = "update"

\* the last call committed a transition
Committed == Len(log) > Len(obs.before.log)

LastCommit == log[Len(log)]

EventsOfType(events, event_type) == SelectSeq(events, LAMBDA e : e.event_type = event_type)

\* the seconds the last update added to the three sleep counters
TotalAdded == sm.total_sleep_seconds - obs.before.sm.total_sleep_seconds

DeepAdded == sm.deep_sleep_seconds - obs.before.sm.deep_sleep_seconds

LightAdded == sm.light_sleep_seconds - obs.before.sm.light_sleep_seconds

\* the wall-clock time between the previous update and the last one (0 for
\* the first update of a session, which has no previous one)
Elapsed ==
    IF obs.before.sm.last_update_time > 0 THEN now - obs.before.sm.last_update_time ELSE 0

\* C1 (transition legality): every committed transition from -> to has to in
\* the allowed-transition row of from, or is the documented remap
\* AWAKE -> LIGHT_SLEEP; in particular none goes AWAKE -> NO_BREATHING,
\* AWAKE -> SPASM or SPASM -> NO_BREATHING.  Every change of current_state by
\* an update is such a committed transition, out of the state the update
\* started in.
C1_TransitionLegality ==
    /\ \A i \in DOMAIN log :
          /\ \/ log[i].to \in VALID_TRANSITIONS[log[i].from]
             \/ (log[i].from = AWAKE /\ log[i].to = LIGHT_SLEEP)
          /\ ~(log[i].from = AWAKE /\ log[i].to \in {NO_BREATHING, SPASM})
          /\ ~(log[i].from = SPASM /\ log[i].to = NO_BREATHING)
    /\ LastWasUpdate =>
          IF Committed
          THEN /\ Len(log) = Len(obs.before.log) + 1
               /\ LastCommit.from = obs.before.sm.current_state
               /\ LastCommit.to = sm.current_state
               /\ LastCommit.time = now
          ELSE sm.current_state = obs.before.sm.current_state

\* C1's case: the classifier asked for a state the row of the current state
\* does not allow (NO_BREATHING out of SPASM), and the update committed a
\* transition
C1_Witness ==
    /\ LastWasUpdate
    /\ Committed
    /\ obs.before.sm.current_state = SPASM
    /\ obs.target = NO_BREATHING
    /\ obs.remapped = SPASM

\* C2 (hysteresis): an update commits a candidate C as "confirmed" only if C
\* was already the pending candidate, every update since C became pending
\* produced C, and the time since then is at least the confirmation delay of
\* (current state, C).  An update whose candidate differs from the current
\* state and from the pending candidate commits nothing and makes its
\* candidate the pending one, timed from this update.
C2_Hysteresis ==
    LastWasUpdate =>
        /\ (Committed /\ LastCommit.reason = "confirmed") =>
              /\ obs.remapped = sm.current_state
              /\ obs.before.sm.pending_state = sm.current_state
              /\ obs.before.sm.pending_state_time # None
              /\ obs.streak_len >= 2
              /\ obs.streak_since = obs.before.sm.pending_state_time
              /\ now - obs.before.sm.pending_state_time
                    >= get_confirmation_time(obs.before.sm.current_state,
                                             sm.current_state, thresholds)
        /\ (/\ obs.remapped # obs.before.sm.current_state
            /\ obs.remapped # obs.before.sm.pending_state) =>
              /\ ~Committed
              /\ sm.current_state = obs.before.sm.current_state
              /\ sm.pending_state = obs.remapped
              /\ sm.pending_state_time = now

\* C2's case: a candidate became pending in one update and was confirmed by
\* the next one, the delay having passed between the two
C2_Witness ==
    /\ LastWasUpdate
    /\ Committed
    /\ LastCommit.reason = "confirmed"
    /\ obs.calls >= 2
    /\ obs.streak_len = 2
    /\ obs.before.sm.pending_state_time = obs.before.now

\* the update found a spasm whose window had run out
SpasmWindowOver ==
    /\ obs.before.sm.current_state = SPASM
    /\ now - obs.before.sm.spasm_start_time > thresholds.SPASM_WINDOW

\* C3 as it is stated: an update whose candidate after the remap equals the
\* current state leaves the current state unchanged and adds to the sleep
\* counters no more than the time elapsed since the previous update
C3_UnchangedCandidate ==
    (LastWasUpdate /\ obs.remapped = obs.before.sm.current_state) =>
        /\ sm.current_state = obs.before.sm.current_state
        /\ ~Committed
        /\ 0 <= TotalAdded /\ TotalAdded <= Elapsed
        /\ 0 <= DeepAdded + LightAdded /\ DeepAdded + LightAdded <= Elapsed

\* C3 (idempotence of an unchanged candidate), amended: the current state is
\* left unchanged unless it is SPASM and more than SPASM_WINDOW has passed
\* since the spasm began; then the update commits the "spasm_ended" revert to
\* the state the spasm interrupted.  In both cases the pending candidate is
\* cleared and the counters grow by no more than the elapsed time.
C3_UnchangedCandidateExceptSpasmEnd ==
    (LastWasUpdate /\ obs.remapped = obs.before.sm.current_state) =>
        /\ IF SpasmWindowOver
           THEN /\ Committed
                /\ LastCommit.reason = "spasm_ended"
                /\ sm.current_state = obs.before.sm.pre_spasm_state
           ELSE /\ ~Committed
                /\ sm.current_state = obs.before.sm.current_state
        /\ sm.pending_state = NoState
        /\ 0 <= TotalAdded /\ TotalAdded <= Elapsed
        /\ 0 <= DeepAdded + LightAdded /\ DeepAdded + LightAdded <= Elapsed

\* C3's case: the candidate equals the current state SPASM inside the window,
\* the state stays and sleep time accrues
C3_Witness ==
    /\ LastWasUpdate
    /\ obs.remapped = obs.before.sm.current_state
    /\ obs.before.sm.current_state = SPASM
    /\ ~SpasmWindowOver
    /\ sm.current_state = SPASM
    /\ TotalAdded > 0

\* C4 (no motion from the start): from UNKNOWN with nothing pending, while
\* every update of the session has seen is_no_motion, the state is UNKNOWN
\* with no alert after each update earlier than 12 s after the first one, and
\* NO_BREATHING after each later one, with exactly one no_breathing_alert
\* event, stamped with the time of the commit, which is at least 12 s after
\* the first update.
C4_NoBreathingAfterTwelveSeconds ==
    obs.nm_run = "all" =>
        LET alerts == EventsOfType(sm.events, "no_breathing_alert")
        IN  IF sm.last_update_time - obs.nm_since < 12 * Second
            THEN /\ sm.current_state = UNKNOWN
                 /\ alerts = <<>>
            ELSE /\ sm.current_state = NO_BREATHING
                 /\ Len(alerts) = 1
                 /\ alerts[1].timestamp = sm.state_start_time
                 /\ alerts[1].timestamp - obs.nm_since >= 12 * Second
                 /\ log # <<>>
                 /\ LastCommit = [from |-> UNKNOWN, to |-> NO_BREATHING,
                                  reason |-> "confirmed", time |-> sm.state_start_time]

\* C4's case: the update that commits NO_BREATHING, 12 s or more after the
\* first update of a session that saw no motion at all
C4_Witness ==
    /\ obs.nm_run = "all"
    /\ obs.calls >= 2
    /\ LastWasUpdate
    /\ Committed
    /\ obs.before.sm.current_state = UNKNOWN
    /\ sm.current_state = NO_BREATHING
    /\ now - obs.nm_since = 12 * Second

\* no sample above AWAKE_THRESHOLD has arrived since the spasm was committed
NoSpikeSinceSpasm ==
    \A i \in DOMAIN sm.motion_buffer :
        sm.motion_buffer[i][1] > obs.before.sm.spasm_start_time
            => sm.motion_buffer[i][2] <= thresholds.AWAKE_THRESHOLD

\* the first half of C5: in DEEP_SLEEP with the candidate SPASM pending, an
\* update that produces SPASM again commits it if and only if half a second
\* has passed; the commit adds exactly 1 to spasm_count, appends one spasm
\* event and remembers DEEP_SLEEP as the state to return to
SpasmCommittedAfterHalfSecond ==
    (/\ LastWasUpdate
     /\ obs.before.sm.current_state = DEEP_SLEEP
     /\ obs.before.sm.pending_state = SPASM
     /\ obs.remapped = SPASM) =>
        IF now - obs.before.sm.pending_state_time >= HalfSecond
        THEN /\ sm.current_state = SPASM
             /\ Committed
             /\ LastCommit.reason = "confirmed"
             /\ sm.spasm_count = obs.before.sm.spasm_count + 1
             /\ sm.events = Append(obs.before.sm.events, SleepEvent("spasm", now, NoData))
             /\ sm.spasm_start_time = now
             /\ sm.pre_spasm_state = DEEP_SLEEP
        ELSE /\ sm.current_state = DEEP_SLEEP
             /\ sm.spasm_count = obs.before.sm.spasm_count

\* an update in SPASM out of DEEP_SLEEP, more than SPASM_WINDOW after the
\* spasm began, no spike having arrived since
SpasmOutlived ==
    /\ LastWasUpdate
    /\ SpasmWindowOver
    /\ obs.before.sm.pre_spasm_state = DEEP_SLEEP
    /\ NoSpikeSinceSpasm

\* C5 as it is stated: ... and an update after SPASM_WINDOW with no further
\* spike reverts to DEEP_SLEEP by a commit with reason "spasm_ended"
C5_SpasmScenario ==
    /\ SpasmCommittedAfterHalfSecond
    /\ SpasmOutlived =>
          /\ Committed
          /\ LastCommit.reason = "spasm_ended"
          /\ sm.current_state = DEEP_SLEEP

\* C5 (spasm during deep sleep), amended: the commit of SPASM is as stated.
\* After SPASM_WINDOW the revert with reason "spasm_ended" is committed by the
\* first update whose candidate after the remap is SPASM itself.  An update
\* whose candidate is another state (DEEP_SLEEP while the breathing phase is
\* "deep") goes through the pending step instead: it commits its candidate
\* with reason "confirmed" once the confirmation delay has passed, and leaves
\* SPASM in place until then.  No revert adds to spasm_count.
C5_SpasmScenarioAmended ==
    /\ SpasmCommittedAfterHalfSecond
    /\ SpasmOutlived =>
          /\ sm.spasm_count = obs.before.sm.spasm_count
          /\ IF obs.remapped = SPASM
             THEN /\ Committed
                  /\ LastCommit.reason = "spasm_ended"
                  /\ sm.current_state = DEEP_SLEEP
             ELSE IF /\ obs.before.sm.pending_state = obs.remapped
                     /\ now - obs.before.sm.pending_state_time
                           >= get_confirmation_time(SPASM, obs.remapped, thresholds)
             THEN /\ Committed
                  /\ LastCommit.reason = "confirmed"
                  /\ sm.current_state = obs.remapped
             ELSE /\ ~Committed
                  /\ sm.current_state = SPASM
                  /\ sm.pending_state = obs.remapped

\* C5's case: SPASM was committed out of DEEP_SLEEP and this update, after the
\* window, reverted it with reason "spasm_ended"
C5_Witness ==
    /\ SpasmOutlived
    /\ obs.calls >= 1
    /\ Committed
    /\ LastCommit.reason = "spasm_ended"
    /\ sm.current_state = DEEP_SLEEP
    /\ sm.spasm_count >= 1

\* C6 as it is stated: with AWAKE_THRESHOLD overridden to 999999999 no update
\* produces the candidate AWAKE.  (The classifier's awake rule compares the
\* mean with MOVEMENT_THRESHOLD, which the override leaves alone.)
C6_AwakeThresholdRespected ==
    (LastWasUpdate /\ thresholds.AWAKE_THRESHOLD = 999999999) => obs.target # AWAKE

\* C7 (falling asleep out of AWAKE): in AWAKE, while every update produces the
\* candidate DEEP_SLEEP, an update earlier than 15 s after the candidate first
\* appeared commits nothing, and the update at or after 15 s commits
\* AWAKE -> DEEP_SLEEP with reason "confirmed" and appends one fell_asleep event.
C7_SleepFromAwakeAfterFifteenSeconds ==
    (/\ LastWasUpdate
     /\ obs.before.sm.current_state = AWAKE
     /\ obs.target = DEEP_SLEEP) =>
        /\ obs.remapped = DEEP_SLEEP
        /\ IF now - obs.streak_since < 15 * Second
           THEN /\ ~Committed
                /\ sm.current_state = AWAKE
                /\ sm.events = obs.before.sm.events
           ELSE /\ Committed
                /\ LastCommit = [from |-> AWAKE, to |-> DEEP_SLEEP,
                                 reason |-> "confirmed", time |-> now]
                /\ sm.current_state = DEEP_SLEEP
                /\ sm.events = Append(obs.before.sm.events,
                                      SleepEvent("fell_asleep", now, NoData))

\* C7's case: the candidate DEEP_SLEEP has lasted 15 s and the update commits it
C7_Witness ==
    /\ LastWasUpdate
    /\ obs.calls >= 1
    /\ obs.before.sm.current_state = AWAKE
    /\ obs.target = DEEP_SLEEP
    /\ now - obs.streak_since = 15 * Second
    /\ sm.current_state = DEEP_SLEEP

\* C9 (buffer bound): after an update at time now the buffer holds no sample
\* older than now - 60 s, its timestamps are in non-decreasing order, and its
\* last element is the sample just ingested
C9_BufferBound ==
    LastWasUpdate =>
        /\ sm.motion_buffer # <<>>
        /\ \A i \in DOMAIN sm.motion_buffer : sm.motion_buffer[i][1] >= now - 60 * Second
        /\ \A i \in 1..(Len(sm.motion_buffer) - 1) :
              sm.motion_buffer[i][1] <= sm.motion_buffer[i + 1][1]
        /\ sm.motion_buffer[Len(sm.motion_buffer)] = <<now, obs.score>>

\* C9's case: the update evicted two samples or more
C9_Witness ==
    /\ LastWasUpdate
    /\ obs.calls >= 1
    /\ Len(sm.motion_buffer) < Len(obs.before.sm.motion_buffer)

\* the last update's sample began a peak, at distance PeakGap of the previous one
NewPeakAfterPeak ==
    /\ LastWasUpdate
    /\ obs.score > BREATH_PEAK_THRESHOLD
    /\ ~obs.before.ba.in_peak
    /\ obs.before.ba.last_peak_time # None

PeakGap == now - obs.before.ba.last_peak_time

\* C10 (breath interval validity): every recorded interval is between 1 s and
\* 5 s, and a peak closer than 1 s to the previous peak, or farther than 5 s
\* from it, adds no interval
C10_BreathIntervalValidity ==
    /\ \A i \in DOMAIN ba.breath_intervals :
          1 * Second <= ba.breath_intervals[i] /\ ba.breath_intervals[i] <= 5 * Second
    /\ (NewPeakAfterPeak /\ (PeakGap < 1 * Second \/ PeakGap > 5 * Second)) =>
          ba.breath_intervals = obs.before.ba.breath_intervals

\* C10's case: a peak half a second after the previous one
C10_Witness ==
    /\ NewPeakAfterPeak
    /\ obs.calls >= 1
    /\ PeakGap < 1 * Second
    /\ ba.last_peak_time = now

-----------------------------------------------------------------------------
(* The quality score, as get_stats reports it, over combinations of the
   metrics it is computed from.  The combinations are drawn around the edges
   of the four penalties and of the two 60 s floors. *)

\* total sleep: none, 59.75 s, 60 s, two hours
QualityTotals == {0, 60 * Second - 1, 60 * Second, 2 * Hour}

\* deep sleep, in tenths of the total (the penalty changes at 0.2, 0.35, 0.6)
QualityDeepTenths == {0, 1, 2, 4, 6, 7}

QualityWakeUps == {0, 3, 4, 6}

QualitySpasms == {0, 10, 11, 25}

\* the time since the session began
QualitySessionDurations == {60 * Second - 1, 60 * Second, 2 * Hour, 3 * Hour}

\* the breath intervals: none, regular, a variability of 0.4004 (rounded to
\* 0.4), of 0.4058 (rounded to 0.406) and of 0.73
QualityIntervals ==
    {<<>>,
     <<8, 8, 8, 8, 10>>,
     <<4, 14, 16, 16, 17>>,
     <<4, 13, 16, 16, 17>>,
     <<4, 20, 4, 20, 4, 20>>}

\* the state of a session with the given metrics, session_duration after its start
QualityState(total, deep, wake_ups, spasms, session_duration, intervals) ==
    [Constructed EXCEPT
        !.now = Second + session_duration,
        !.sm = [SleepManagerInit EXCEPT
                   !.session_start_time = Second,
                   !.last_update_time = Second + session_duration,
                   !.total_sleep_seconds = total,
                   !.deep_sleep_seconds = deep,
                   !.light_sleep_seconds = total - deep,
                   !.wake_up_count = wake_ups,
                   !.spasm_count = spasms],
        !.ba = [BreathingAnalyzerInit EXCEPT !.breath_intervals = intervals]]

\* a session sleeps no longer than it lasts, and its breath intervals fit in it
QualityInit ==
    \E total \in QualityTotals, tenths \in QualityDeepTenths, wake_ups \in QualityWakeUps,
       spasms \in QualitySpasms, session_duration \in QualitySessionDurations,
       intervals \in QualityIntervals :
        /\ total <= session_duration
        /\ SeqSum(intervals) <= session_duration
        /\ Start(QualityState(total, (total * tenths) \div 10, wake_ups, spasms,
                              session_duration, intervals))

SpecQuality == QualityInit /\ [][GetStats]_vars

\* the duration of the session at the time of the last call
SessionDuration ==
    IF sm.session_start_time # None THEN now - sm.session_start_time ELSE 0

\* C8 (quality score bounds): the sleep_quality_score that get_stats returns is
\* an integer from 0 to 100, and it is 0 whenever the total sleep or the
\* session duration is below 60 s
C8_QualityScoreBounds ==
    obs.op = "get_stats" =>
        /\ obs.ret.sleep_quality_score \in 0..100
        /\ (sm.total_sleep_seconds < 60 * Second \/ SessionDuration < 60 * Second)
              => obs.ret.sleep_quality_score = 0

\* C8's case: get_stats scored a session on which every penalty is at its cap
C8_Witness ==
    /\ obs.op = "get_stats"
    /\ sm.total_sleep_seconds >= 60 * Second
    /\ SessionDuration >= 60 * Second
    /\ obs.ret.sleep_quality_score = 100 - 20 - 30 - 10 - 10

\* the session of the last call has 60 s of sleep and has lasted 60 s
EnoughData == sm.total_sleep_seconds >= 60 * Second /\ SessionDuration >= 60 * Second

\* C40 (penalty floor of the quality score): the four penalties are at most
\* 20 (deep ratio), 30 (excess wake-ups), 10 (spasms beyond 10) and 10
\* (variability above 0.4); the score get_stats returns is 0 exactly when the
\* session or its total sleep is shorter than 60 s, and otherwise it is 100
\* less the four penalties, a number from 30 to 100: no score is in 1..29.
C40_PenaltyFloor ==
    obs.op = "get_stats" =>
        LET deep == DeepRatioPenalty(sm.deep_sleep_seconds, sm.total_sleep_seconds)
            wakes == WakePenalty(sm.wake_up_count, SessionDuration)
            spasms == SpasmPenalty(sm.spasm_count)
            variability == VariabilityPenalty(ba)
            score == obs.ret.sleep_quality_score
        IN  /\ deep \in 0..20
            /\ wakes \in 0..30
            /\ spasms \in 0..10
            /\ variability \in {0, 10}
            /\ score \notin 1..29
            /\ score = 0 <=> ~EnoughData
            /\ EnoughData => score = 100 - deep - wakes - spasms - variability
            /\ EnoughData => score \in 30..100

\* C40's case: two hours with no deep sleep, six wake-ups (four more than
\* expected, 40 before the cap), 25 spasms (15 before the cap) and irregular
\* breathing: the score is 30
C40_Witness ==
    /\ obs.op = "get_stats"
    /\ EnoughData
    /\ SessionDuration = 2 * Hour
    /\ sm.deep_sleep_seconds = 0
    /\ sm.wake_up_count = 6
    /\ sm.spasm_count = 25
    /\ RoundedVariabilityAbove04(ba)
    /\ obs.ret.sleep_quality_score = 30

-----------------------------------------------------------------------------
(* The persisted history.  The history file outlives the process, so the
   engine is also explored with a file that earlier sessions have filled: it
   holds no entry, one less than the cap, or the cap. *)

\* the entry an earlier session i left in the file
StoredEntry(i) ==
    [id |-> 0 - i, timestamp |-> i, duration_seconds |-> 90,
     quality_score |-> 80, quality_rating |-> "Good"]

StoredHistory(n) == [i \in 1..n |-> StoredEntry(i)]

HistoryLengths == {0, MaxHistory - 1, MaxHistory}

\* LIGHT_SLEEP from 3 s on, for 32 s
ShortSleepSamples ==
    LightSleepSamples \o <<<<12 * Second, Quiet>>, <<12 * Second, Quiet>>, <<5 * Second, Quiet>>>>

\* sessions with and without a start time, with less and more than 60 s of sleep
HistorySamples ==
    {<<>>, LightSleepSamples, ShortSleepSamples, DeepSleepSamples, SpasmSamples}

HistoryInit ==
    \E n \in HistoryLengths, samples \in HistorySamples :
        Start([StartingState(samples) EXCEPT
                  !.history[DefaultThresholds.HISTORY_FILE] = StoredHistory(n)])

SpecHistory == HistoryInit /\ [][Next]_vars

LastWasStop == obs.op = "stop_session"

\* the history file the last call used, as it is and as the call found it
HistoryFile == history[thresholds.HISTORY_FILE]

HistoryFileBefore == obs.before.history[thresholds.HISTORY_FILE]

\* C11 (history cap): the persisted history never holds more than 100
\* entries.  A stop_session whose save succeeds leaves the entries the file
\* held, in their order, followed by the entry of this session; when that
\* makes 101, the oldest one is dropped.
C11_HistoryCap ==
    /\ \A file \in HistoryFiles : Len(history[file]) <= 100
    /\ (LastWasStop /\ obs.ret.io = IOSuccess /\ ShouldSave(sm)) =>
          LET old == HistoryFileBefore
              n == Len(HistoryFile)
          IN  /\ n = Min2(Len(old) + 1, 100)
              /\ HistoryFile[n].id = sm.session_id
              /\ \A i \in 1..(n - 1) : HistoryFile[i] = old[i + (Len(old) + 1 - n)]

\* C11's case: the file held 100 entries, the save appended the 101st and the
\* oldest entry is gone
C11_Witness ==
    /\ LastWasStop
    /\ obs.ret.io = IOSuccess
    /\ ShouldSave(sm)
    /\ Len(HistoryFileBefore) = 100
    /\ Len(HistoryFile) = 100
    /\ HistoryFile[1] = HistoryFileBefore[2]
    /\ HistoryFile[100].id = sm.session_id

\* the last call changed the history file
Persisted == history # obs.before.history

\* the wall-clock time the session has spent in DEEP_SLEEP, LIGHT_SLEEP or SPASM
SleepWallClock == obs.asleep + AsleepSince(sm, now)

\* C12 as it is stated (persistence eligibility): a stop_session whose save
\* meets no file-system failure appends an entry if and only if the session
\* has a start time and its accumulated sleep is at least 60 s, and it never
\* persists a session whose sleep states lasted less than 60 s of wall-clock
\* time.  (stop_session adds the open sleep interval to total_sleep_seconds,
\* which update has already counted.)
C12_PersistenceEligibility ==
    (LastWasStop /\ obs.ret.io = IOSuccess) =>
        /\ Persisted <=>
              (sm.session_start_time # None /\ sm.total_sleep_seconds >= 60 * Second)
        /\ Persisted => SleepWallClock >= 60 * Second

-----------------------------------------------------------------------------
(* get_recent_events, on the event logs of the starting states *)

\* the values of count: none, fewer than the log holds, more, and the default
EventCounts == {0, 1, 2, 3, 10}

GetRecentEvents ==
    /\ obs.calls < MaxCalls
    /\ \E count \in EventCounts :
          \E nxt \in {CallGetRecentEvents(State, count)} : Assign(nxt)

EventsInit ==
    \E samples \in StartingSamples \cup HistorySamples : Start(StartingState(samples))

SpecEvents == EventsInit /\ [][GetRecentEvents]_vars

\* C13 as it is stated: get_recent_events(count) returns exactly the last
\* min(count, n) events of a log of n events, oldest first, so none for
\* count = 0.  (The code takes the slice events[-count:], which for count = 0
\* is the whole log.)
C13_RecentEvents ==
    obs.op = "get_recent_events" =>
        LET n == Len(sm.events)
            k == Min2(obs.ret.count, n)
        IN  /\ Len(obs.ret.events) = k
            /\ \A i \in 1..k :
                  obs.ret.events[i] = [type |-> sm.events[n - k + i].event_type,
                                       timestamp |-> sm.events[n - k + i].timestamp,
                                       data |-> sm.events[n - k + i].data]

-----------------------------------------------------------------------------
(* set_thresholds *)

LastWasSetThresholds == obs.op = "set_thresholds"

\* the keyword names of the last set_thresholds call that carry a value and
\* name the attribute attr
OverridesOf(attr) ==
    {key \in DOMAIN obs.ret.kwargs : UpperName[key] = attr /\ obs.ret.kwargs[key] # None}

\* the thresholds and the window and confirmation constants
ThresholdNames == DOMAIN thresholds \ {"HISTORY_FILE"}

\* C16 as it is stated (frame of set_thresholds): each threshold named, in
\* upper case, by a keyword that carries a value takes that value, every other
\* threshold keeps its own, and nothing else changes: the session state, the
\* analyzer, the history files and their name, and the transition log.  A
\* call with only unknown names or null values changes nothing at all.
\* (The code sets every attribute hasattr finds under the upper-case name,
\* HISTORY_FILE included.)
C16_SetThresholdsFrame ==
    LastWasSetThresholds =>
        /\ sm = obs.before.sm
        /\ ba = obs.before.ba
        /\ log = obs.before.log
        /\ history = obs.before.history
        /\ DOMAIN thresholds = DOMAIN obs.before.thresholds
        /\ thresholds.HISTORY_FILE = obs.before.thresholds.HISTORY_FILE
        /\ \A attr \in ThresholdNames :
              IF OverridesOf(attr) = {}
              THEN thresholds[attr] = obs.before.thresholds[attr]
              ELSE \E key \in OverridesOf(attr) : thresholds[attr] = obs.ret.kwargs[key]

\* ---------------------------------------------------------------------------
\* the open sleep interval
\* ---------------------------------------------------------------------------

\* C17 (no sleep interval is open while awake): in every reachable state in
\* which current_state is AWAKE, last_sleep_start is null.  (The code closes
\* the interval only on a transition from DEEP_SLEEP or LIGHT_SLEEP to AWAKE:
\* sleep, SPASM, AWAKE leaves it open.)
C17_AwakeClosesSleepInterval ==
    sm.current_state = AWAKE => sm.last_sleep_start = None

\* ---------------------------------------------------------------------------
\* UNKNOWN
\* ---------------------------------------------------------------------------

\* C18 (UNKNOWN occurs only at session start): the candidate an update
\* classifies, before and after the remap, is never UNKNOWN; no committed
\* transition has UNKNOWN as its target; and a call other than start_session
\* that starts in a state other than UNKNOWN, or that commits a transition,
\* ends in a state other than UNKNOWN.
C18_UnknownOnlyAtSessionStart ==
    /\ LastWasUpdate => obs.target # UNKNOWN /\ obs.remapped # UNKNOWN
    /\ \A i \in DOMAIN log : log[i].to # UNKNOWN
    /\ Committed => sm.current_state # UNKNOWN
    /\ (obs.calls > 0 /\ obs.op # "start_session"
            /\ obs.before.sm.current_state # UNKNOWN) => sm.current_state # UNKNOWN

\* the second update of a session commits the transition out of UNKNOWN
C18_Witness ==
    /\ LastWasUpdate
    /\ obs.calls = 2
    /\ Committed
    /\ LastCommit.from = UNKNOWN
    /\ obs.before.sm.pending_state = sm.current_state

\* ---------------------------------------------------------------------------
\* the confirmation delays
\* ---------------------------------------------------------------------------

\* the table of confirmation delays, by target first and origin second
DelayTable(from_state, to_state, thr) ==
    IF to_state = SPASM THEN HalfSecond
    ELSE IF to_state = NO_BREATHING THEN thr.CONFIRM_NO_BREATHING_SECONDS
    ELSE IF to_state = AWAKE THEN thr.CONFIRM_AWAKE_SECONDS
    ELSE IF {from_state, to_state} = {DEEP_SLEEP, LIGHT_SLEEP} THEN thr.CONFIRM_PHASE_CHANGE_SECONDS
    ELSE IF from_state = AWAKE THEN thr.CONFIRM_SLEEP_SECONDS
    ELSE 3 * Second

\* the time the candidate of the last update had been pending
PendingFor == now - obs.before.sm.pending_state_time

\* the last update found its candidate pending already
CandidateWasPending ==
    /\ LastWasUpdate
    /\ obs.remapped # obs.before.sm.current_state
    /\ obs.remapped = obs.before.sm.pending_state

\* C20 (confirmation delay table): for every pair of distinct states
\* _get_confirmation_time returns 0.5 s to SPASM, else
\* CONFIRM_NO_BREATHING_SECONDS (12 s) to NO_BREATHING, else
\* CONFIRM_AWAKE_SECONDS (8 s) to AWAKE, else CONFIRM_PHASE_CHANGE_SECONDS
\* (30 s) between DEEP_SLEEP and LIGHT_SLEEP, else CONFIRM_SLEEP_SECONDS (15 s)
\* from AWAKE, else 3 s; and an update whose candidate was pending commits it
\* exactly when the candidate has been pending for the delay of the table.
C20_ConfirmationDelayTable ==
    /\ \A from_state, to_state \in SleepState :
          from_state # to_state =>
              get_confirmation_time(from_state, to_state, thresholds)
                  = DelayTable(from_state, to_state, thresholds)
    /\ thresholds.CONFIRM_NO_BREATHING_SECONDS = 12 * Second
    /\ thresholds.CONFIRM_AWAKE_SECONDS = 8 * Second
    /\ thresholds.CONFIRM_PHASE_CHANGE_SECONDS = 30 * Second
    /\ thresholds.CONFIRM_SLEEP_SECONDS = 15 * Second
    /\ CandidateWasPending =>
          LET delay == DelayTable(obs.before.sm.current_state, obs.remapped,
                                  obs.before.thresholds)
          IN  IF PendingFor >= delay
              THEN Committed /\ LastCommit.reason = "confirmed"
                             /\ LastCommit.to = obs.remapped
              ELSE ~Committed

\* an update commits a candidate that has been pending for exactly its delay
C20_Witness ==
    /\ CandidateWasPending
    /\ obs.calls >= 1
    /\ Committed
    /\ PendingFor = DelayTable(LastCommit.from, LastCommit.to, thresholds)

\* ---------------------------------------------------------------------------
\* persistence failures
\* ---------------------------------------------------------------------------

\* C19 (stop_session absorbs persistence failures): whatever the file system
\* does, stop_session returns normally and leaves no sleep interval open; when
\* the session is saved and loading the history failed (missing or corrupt
\* file) while the write succeeded, the file holds the entry of this session
\* and nothing else.
C19_PersistenceFailuresAbsorbed ==
    LastWasStop =>
        /\ obs.ret.returned
        /\ sm.last_sleep_start = None
        /\ (ShouldSave(sm) /\ obs.ret.io.load = "failed" /\ obs.ret.io.write = "ok") =>
              /\ Len(HistoryFile) = 1
              /\ HistoryFile[1].id = sm.session_id
              /\ HistoryFile[1].timestamp = sm.session_start_time

\* stop_session closes an open sleep interval of a session that is saved, and
\* the write of the history fails
C19_Witness ==
    /\ LastWasStop
    /\ ShouldSave(sm)
    /\ obs.before.sm.last_sleep_start # None
    /\ obs.ret.io.write = "dump_fails"
    /\ HistoryFileBefore # <<>>

\* ---------------------------------------------------------------------------
\* the engine called by several threads
\* ---------------------------------------------------------------------------

(* Every public method runs "with self.lock".  A thread calls a method, waits
   for the lock, takes it, runs the body statement by statement and leaves the
   with block.  The body of a writing method is cut where another thread
   could see a difference: each stage is the state its statements leave
   behind.  A reading method reads the state in one step. *)

\* update step by step: the sample is stored and the analyzer fed ...
Sampled(s, after) ==
    [s EXCEPT !.session_start_time = after.session_start_time,
              !.motion_buffer = after.motion_buffer]

\* ... the tracking blocks of _execute_transition record the transition ...
Tracked(s, after) ==
    [s EXCEPT !.spasm_start_time = after.spasm_start_time,
              !.pre_spasm_state = after.pre_spasm_state,
              !.spasm_count = after.spasm_count,
              !.events = after.events,
              !.wake_up_count = after.wake_up_count,
              !.last_sleep_start = after.last_sleep_start,
              !.sleep_cycles = after.sleep_cycles,
              !.current_cycle_start = after.current_cycle_start]

\* ... current_state is committed ...
StateCommitted(s, after) ==
    [s EXCEPT !.current_state = after.current_state,
              !.state_start_time = after.state_start_time]

\* ... the pending transition is set or cleared
PendingSettled(s, after) ==
    [s EXCEPT !.pending_state = after.pending_state,
              !.pending_state_time = after.pending_state_time]

\* update, where after is the state the whole call leaves: the four steps
\* above (the transition is logged with the fourth), then the metrics
UpdateStages(st, after) ==
    LET s1 == [st EXCEPT !.now = after.now, !.sm = Sampled(@, after.sm), !.ba = after.ba]
        s2 == [s1 EXCEPT !.sm = Tracked(@, after.sm)]
        s3 == [s2 EXCEPT !.sm = StateCommitted(@, after.sm)]
        s4 == [s3 EXCEPT !.sm = PendingSettled(@, after.sm), !.log = after.log]
    IN  <<s1, s2, s3, s4, after>>

\* _reset_session step by step: the id and the state tracking ...
ResetTracking(s, reset) ==
    [s EXCEPT !.session_id = reset.session_id,
              !.session_start_time = reset.session_start_time,
              !.current_state = reset.current_state,
              !.motion_buffer = reset.motion_buffer,
              !.state_start_time = reset.state_start_time,
              !.pending_state = reset.pending_state,
              !.pending_state_time = reset.pending_state_time,
              !.spasm_start_time = reset.spasm_start_time,
              !.pre_spasm_state = reset.pre_spasm_state,
              !.current_phase = reset.current_phase,
              !.phase_start_time = reset.phase_start_time]

\* ... the metrics (the analyzer is reset with them); the cycles, the events
\* and the cache come last
ResetMetrics(s, reset) ==
    [s EXCEPT !.total_sleep_seconds = reset.total_sleep_seconds,
              !.deep_sleep_seconds = reset.deep_sleep_seconds,
              !.light_sleep_seconds = reset.light_sleep_seconds,
              !.last_sleep_start = reset.last_sleep_start,
              !.wake_up_count = reset.wake_up_count,
              !.spasm_count = reset.spasm_count,
              !.micro_arousals = reset.micro_arousals]

\* start_session, where after is the state the whole call leaves:
\* _reset_session in three parts, then the start time
StartSessionStages(st, after) ==
    LET s1 == [st EXCEPT !.sm = ResetTracking(@, reset_session(st.sm))]
        s2 == [s1 EXCEPT !.sm = ResetMetrics(@, reset_session(st.sm)),
                         !.ba = BreathingAnalyzerInit]
        s3 == [s2 EXCEPT !.sm = reset_session(st.sm)]
    IN  <<s1, s2, s3, after>>

\* stop_session, where after is the state the whole call leaves: the open
\* sleep interval is closed, then the session is saved
StopSessionStages(st, after) ==
    <<[st EXCEPT !.now = after.now, !.sm = CloseSleepInterval(@, after.now)], after>>

ReadingMethods == {"get_stats", "get_recent_events", "get_sleep_report"}

\* what a call is made with
Input(dt, motion_score, count, kwargs) ==
    <<dt, motion_score, count, kwargs>>

\* the parts of an input
InputDt(input) == input[1]
InputScore(input) == input[2]
InputCount(input) == input[3]
InputKwargs(input) == input[4]

\* the stages of a writing method entered in state st
StagesOf(method, input, st) ==
    CASE method = "update" ->
             UpdateStages(st, CallUpdate(st, InputDt(input), InputScore(input)))
      [] method = "start_session" -> StartSessionStages(st, CallStartSession(st, InputDt(input)))
      [] method = "stop_session" ->
             StopSessionStages(st, CallStopSession(st, InputDt(input), IOSuccess))
      [] method = "set_thresholds" -> <<CallSetThresholds(st, InputKwargs(input))>>
      [] OTHER -> <<>>

\* a reading method run in state st; the read of stop_session is the
\* get_sleep_report that _save_to_history calls
ReadCall(method, input, st) ==
    CASE method = "get_stats" -> CallGetStats(st, InputDt(input))
      [] method \in {"get_sleep_report", "stop_session"} -> CallGetSleepReport(st, InputDt(input))
      [] OTHER -> CallGetRecentEvents(st, InputCount(input))

\* get_sleep_report calls get_stats inside its own with block: the lock is
\* taken twice; a stop_session that saves calls _save_to_history, which calls
\* get_sleep_report: the lock is taken three times
Depth(method) ==
    IF method = "get_sleep_report" THEN 2
    ELSE IF method = "stop_session" THEN 3
    ELSE 1

\* the stages a method writes before it reads: stop_session closes the sleep
\* interval before it makes the report
BeforeRead(method) == IF method = "stop_session" THEN 1 ELSE 0

\* thread t is between two statements of a body that writes: some stages are
\* written and some are not
Partway(t) == threads[t].done > 0 /\ threads[t].stages # <<>>

\* thread t is inside a with block
InBody(t) == threads[t].held > 0

\* the calls each thread makes
MaxThreadCalls == 1

LockGaps == {HalfSecond, 12 * Second}

LockScores == {Quiet, Spike}

\* thread t calls a method: it stands before "with self.lock"
Call(t, method, input) ==
    /\ threads[t].method = NoMethod
    /\ threads[t].calls < MaxThreadCalls
    /\ threads' = [threads EXCEPT ![t] = [Idle EXCEPT !.method = method, !.input = input,
                                                     !.calls = threads[t].calls + 1]]
    /\ UNCHANGED <<engine, lock>>

\* "with self.lock": the thread takes the lock once the lock lets it, and the
\* body it is about to run starts from the state it finds
Enter(t) ==
    /\ threads[t].method # NoMethod
    /\ threads[t].held = 0
    /\ threads[t].done = 0
    /\ LockFree(lock, t)
    /\ lock' = acquire(lock, t)
    /\ \E stages \in {StagesOf(threads[t].method, threads[t].input, State)} :
          threads' = [threads EXCEPT
                         ![t].held = 1,
                         ![t].stages = stages,
                         ![t].reads =
                             IF threads[t].method \in ReadingMethods THEN 1
                             ELSE IF threads[t].method = "stop_session" /\ ShouldSave(stages[1].sm)
                             THEN 1
                             ELSE 0]
    /\ UNCHANGED engine

\* get_sleep_report enters get_stats, and a stop_session that saves enters
\* get_sleep_report: the lock is taken again
Reenter(t) ==
    /\ threads[t].held > 0
    /\ threads[t].held < Depth(threads[t].method)
    /\ threads[t].reads > 0
    /\ threads[t].done = BeforeRead(threads[t].method)
    /\ LockFree(lock, t)
    /\ lock' = acquire(lock, t)
    /\ threads' = [threads EXCEPT ![t].held = @ + 1]
    /\ UNCHANGED engine

\* the methods other threads are partway through
TornBy(t) == {threads[u].method : u \in {v \in Threads \ {t} : Partway(v)}}

\* the next statements of a writing body
Write(t) ==
    /\ threads[t].held = 1
    /\ threads[t].stages # <<>>
    /\ threads[t].reads = 0 \/ threads[t].done < BeforeRead(threads[t].method)
    /\ Install(Head(threads[t].stages))
    /\ threads' = [threads EXCEPT ![t].stages = Tail(@), ![t].done = @ + 1]
    /\ UNCHANGED lock

\* the body of a reading method
Read(t) ==
    /\ threads[t].held = Depth(threads[t].method)
    /\ threads[t].reads > 0
    /\ \E nxt \in {ReadCall(threads[t].method, threads[t].input, State)} : Install(nxt)
    /\ threads' = [threads EXCEPT ![t].reads = 0, ![t].done = @ + 1,
                                  ![t].torn_by = TornBy(t)]
    /\ UNCHANGED lock

\* the end of a with block: the lock is released once, and the thread is out
\* of the engine when it holds the lock no more.  The inner blocks of
\* stop_session end before the history is written.
Leave(t) ==
    /\ threads[t].held > 0
    /\ threads[t].done > 0
    /\ threads[t].stages = <<>> \/ threads[t].held > 1
    /\ threads[t].reads = 0
    /\ lock' = release(lock)
    /\ threads' = [threads EXCEPT
                      ![t] = IF threads[t].held = 1
                             THEN [Idle EXCEPT !.calls = threads[t].calls,
                                               !.torn_by = threads[t].torn_by]
                             ELSE [@ EXCEPT !.held = @ - 1]]
    /\ UNCHANGED engine

LockSamples == {LightSleepSamples, SpikeSamples, DrowsySamples, NoBreathingSamples}

LockInit == \E samples \in LockSamples : Start(StartingState(samples))

LockNext ==
    \/ \E dt \in LockGaps, motion_score \in LockScores :
          Call(Producer, "update", Input(dt, motion_score, 0, <<>>))
    \/ Call(Writer, "start_session", Input(0, 0, 0, <<>>))
    \/ Call(Writer, "stop_session", Input(0, 0, 0, <<>>))
    \/ Call(Writer, "set_thresholds", Input(0, 0, 0, [awake_threshold |-> 999999999]))
    \/ Call(Reader, "get_stats", Input(0, 0, 0, <<>>))
    \/ Call(Reader, "get_recent_events", Input(0, 0, 1, <<>>))
    \/ Call(Reader, "get_sleep_report", Input(0, 0, 0, <<>>))
    \/ \E t \in Threads : Enter(t)
    \/ \E t \in Threads : Reenter(t)
    \/ \E t \in Threads : Write(t)
    \/ \E t \in Threads : Read(t)
    \/ \E t \in Threads : Leave(t)

SpecLock == LockInit /\ [][LockNext]_vars

\* no thread is partway through a body: the state is the one the last call
\* that came to its end left
Settled == \A t \in Threads : ~Partway(t)

\* C15 (mutual exclusion): at most one thread is inside a method body, and it
\* is the owner of the lock; no reading method reads while another thread is
\* partway through a body, and what get_stats and get_sleep_report return is
\* never the middle of a commit: the pending transition they report is not
\* the current state.
C15_MutualExclusion ==
    /\ \A t, u \in Threads : (InBody(t) /\ InBody(u)) => t = u
    /\ \A t \in Threads : InBody(t) => (lock.owner = t /\ lock.count = threads[t].held)
    /\ \A t \in Threads : threads[t].torn_by = {}
    /\ obs.op \in {"get_stats", "get_sleep_report"} =>
          obs.ret.pending_transition # obs.ret.current_state

\* a reader stands before the lock while update is between the commit of
\* current_state and the clearing of the pending transition
C15_Witness ==
    /\ threads[Producer].method = "update"
    /\ Partway(Producer)
    /\ sm.current_state = sm.pending_state
    /\ threads[Reader].method = "get_stats"
    /\ threads[Reader].held = 0

\* the last call that came to its end is start_session
LastWasStartSession == obs.op = "start_session"

\* C14 (start_session discards the previous session): once start_session has
\* returned and before another thread writes, current_state is UNKNOWN, no
\* transition is pending, the motion buffer, the breath histories, the event
\* log and the sleep cycles are empty, the second and count metrics are 0,
\* last_sleep_start is null, the session id is a new one and the session
\* starts now; no reading method reads while start_session is partway through
\* its body; and the first update of the session adds no sleep time.
C14_StartSessionResets ==
    /\ (LastWasStartSession /\ Settled) =>
          /\ sm.current_state = UNKNOWN
          /\ sm.pending_state = NoState
          /\ sm.pending_state_time = None
          /\ sm.motion_buffer = <<>>
          /\ ba = BreathingAnalyzerInit
          /\ ba.breath_timestamps = <<>>
          /\ ba.breath_intervals = <<>>
          /\ sm.events = <<>>
          /\ sm.sleep_cycles = <<>>
          /\ sm.total_sleep_seconds = 0
          /\ sm.deep_sleep_seconds = 0
          /\ sm.light_sleep_seconds = 0
          /\ sm.wake_up_count = 0
          /\ sm.spasm_count = 0
          /\ sm.micro_arousals = 0
          /\ sm.last_sleep_start = None
          /\ sm.session_id # obs.before.sm.session_id
          /\ sm.session_start_time = now
    /\ \A t \in Threads : "start_session" \notin threads[t].torn_by
    /\ \A t \in Threads :
          (Partway(t) /\ threads[t].method = "start_session") =>
              \A u \in Threads \ {t} : ~InBody(u)
    /\ (LastWasUpdate /\ Settled /\ obs.before.sm.last_update_time = 0) =>
          /\ TotalAdded = 0
          /\ DeepAdded = 0
          /\ LightAdded = 0

\* start_session has discarded a session that had slept and recorded events,
\* while the reader and the producer stand before the lock
C14_Witness ==
    /\ LastWasStartSession
    /\ Settled
    /\ threads[Writer].held > 0
    /\ obs.before.sm.total_sleep_seconds > 0
    /\ obs.before.sm.events # <<>>
    /\ obs.before.sm.last_sleep_start # None
    /\ threads[Reader].method # NoMethod
    /\ threads[Reader].held = 0
    /\ threads[Producer].method = "update"
    /\ threads[Producer].held = 0

\* ---------------------------------------------------------------------------
\* the classifier on its own
\* ---------------------------------------------------------------------------

(* _determine_state is a function of the analysis of the buffer, of the
   current state and of the thresholds.  It is applied here to every buffer of
   up to three samples taken 8, 4 and 0 seconds ago (the last two lie in
   the spasm window), with breath intervals of every phase (none: unknown,
   regular: deep, a variability of 0.2: transitional, of 0.73: light), in
   every current state, under the default thresholds and under three
   overrides: awake_threshold out of reach, no_motion_threshold above
   MOVEMENT_THRESHOLD, movement_threshold above every sample. *)

RECURSIVE SampleBuffers(_, _)
\* the buffers of n samples, the last one taken at time t, 4 s apart
SampleBuffers(n, t) ==
    IF n = 0 THEN {<<>>}
    ELSE {Append(buf, <<t, score>>) :
            buf \in SampleBuffers(n - 1, t - 4 * Second),
            score \in {Still, Quiet, Moving, Spike}}

MaxSamples == 3

ClassifierInit ==
    \E n \in 0..MaxSamples,
       intervals \in {<<>>, <<8, 8, 8, 8, 10>>, <<8, 8, 8, 12, 12>>, <<4, 20, 4, 20, 4, 20>>},
       current_state \in SleepState,
       kwargs \in {[breathing_min |-> None],
                   [awake_threshold |-> 999999999],
                   [no_motion_threshold |-> 20000000],
                   [movement_threshold |-> 20000000]} :
        \E buf \in SampleBuffers(n, 20 * Second) :
            Start([Constructed EXCEPT
                      !.now = 20 * Second,
                      !.sm = [SleepManagerInit EXCEPT
                                 !.session_start_time = Second,
                                 !.current_state = current_state,
                                 !.motion_buffer = buf],
                      !.ba = [BreathingAnalyzerInit EXCEPT !.breath_intervals = intervals],
                      !.thresholds = set_thresholds(DefaultThresholds, kwargs)])

\* target_state = self._determine_state(analysis, current_time)
Classify ==
    /\ obs.calls = 0
    /\ obs' = [obs EXCEPT
                  !.calls = 1,
                  !.op = "determine_state",
                  !.target = determine_state(analyze_buffer(sm.motion_buffer, ba, thresholds, now),
                                             sm.current_state, thresholds)]
    /\ UNCHANGED <<now, sm, ba, thresholds, history, log, lock, threads>>

SpecClassifier == ClassifierInit /\ [][Classify]_vars

\* the analysis the classifier was given
Analysis == analyze_buffer(sm.motion_buffer, ba, thresholds, now)

\* the rules of the classifier, each as the claim words it
NoMotionRule == Analysis.is_no_motion

MovementRule ==
    /\ 2 * Analysis.high_count > Analysis.ratio_den
    /\ AnalysisMeanGreater(Analysis, thresholds.MOVEMENT_THRESHOLD)

SpasmRule ==
    /\ sm.current_state \in {DEEP_SLEEP, LIGHT_SLEEP, SPASM}
    /\ Analysis.spasm_max > thresholds.AWAKE_THRESHOLD
    /\ 10 * Analysis.high_count < 3 * Analysis.ratio_den

PhaseRule == AnalysisMeanLess(Analysis, thresholds.AWAKE_THRESHOLD)

CurrentOrLight == IF sm.current_state = UNKNOWN THEN LIGHT_SLEEP ELSE sm.current_state

\* C21 (classifier priority): the candidate is decided by the first matching
\* rule: no motion gives NO_BREATHING; else ratio > 0.5 and mean >
\* MOVEMENT_THRESHOLD give AWAKE; else a sleep state with spasm_max >
\* AWAKE_THRESHOLD and ratio < 0.3 gives SPASM; else mean < AWAKE_THRESHOLD
\* gives the state of the breathing phase (deep: DEEP_SLEEP, light or
\* transitional: LIGHT_SLEEP, unknown: the current state, LIGHT_SLEEP for
\* UNKNOWN); else the current state, LIGHT_SLEEP for UNKNOWN.  The thresholds
\* may be overridden.
C21_ClassifierPriority ==
    obs.op = "determine_state" =>
        /\ NoMotionRule => obs.target = NO_BREATHING
        /\ (~NoMotionRule /\ MovementRule) => obs.target = AWAKE
        /\ (~NoMotionRule /\ ~MovementRule /\ SpasmRule) => obs.target = SPASM
        /\ (~NoMotionRule /\ ~MovementRule /\ ~SpasmRule /\ PhaseRule) =>
              /\ Analysis.sleep_phase = "deep" => obs.target = DEEP_SLEEP
              /\ Analysis.sleep_phase \in {"light", "transitional"} => obs.target = LIGHT_SLEEP
              /\ Analysis.sleep_phase = "unknown" => obs.target = CurrentOrLight
        /\ (~NoMotionRule /\ ~MovementRule /\ ~SpasmRule /\ ~PhaseRule) =>
              obs.target = CurrentOrLight

\* under overridden thresholds the no-motion rule and the movement rule match
\* at once, and the first one decides
C21_Witness ==
    /\ obs.op = "determine_state"
    /\ thresholds # DefaultThresholds
    /\ NoMotionRule
    /\ MovementRule
    /\ obs.target = NO_BREATHING

\* ---------------------------------------------------------------------------
\* the remap of invalid candidates
\* ---------------------------------------------------------------------------

\* the candidate differs from the current state and is not in its allowed row
NeedsRemap(current_state, target_state) ==
    target_state # current_state /\ target_state \notin VALID_TRANSITIONS[current_state]

\* the remap policy on every pair of states
RemapPolicy ==
    \A current_state, target_state \in SleepState :
        NeedsRemap(current_state, target_state) =>
            RemapTarget(current_state, target_state) =
                IF current_state = AWAKE THEN LIGHT_SLEEP
                ELSE IF current_state = NO_BREATHING THEN target_state
                ELSE current_state

\* the last update classified a candidate that had to be remapped, and the
\* current state was neither AWAKE nor NO_BREATHING
RemappedToCurrent ==
    /\ LastWasUpdate
    /\ NeedsRemap(obs.before.sm.current_state, obs.target)
    /\ obs.before.sm.current_state \notin {AWAKE, NO_BREATHING}

\* the last update remapped its candidate as the policy says
RemappedByPolicy ==
    (LastWasUpdate /\ NeedsRemap(obs.before.sm.current_state, obs.target)) =>
        obs.remapped = IF obs.before.sm.current_state = AWAKE THEN LIGHT_SLEEP
                       ELSE IF obs.before.sm.current_state = NO_BREATHING THEN obs.target
                       ELSE obs.before.sm.current_state

\* C22 as it is stated: an invalid candidate is replaced by LIGHT_SLEEP when
\* the current state is AWAKE, left as it is when it is NO_BREATHING and
\* replaced by the current state otherwise; in the last case the update
\* commits nothing and clears the pending transition.  (An update always
\* returns: the model has no raising path.)
C22_RemapPolicy ==
    /\ RemapPolicy
    /\ RemappedByPolicy
    /\ RemappedToCurrent =>
          /\ ~Committed
          /\ sm.current_state = obs.before.sm.current_state
          /\ sm.pending_state = NoState
          /\ sm.pending_state_time = None

\* C22 (remap policy), amended: as stated, except that a candidate remapped to
\* the current state SPASM more than SPASM_WINDOW after the spasm began
\* commits the "spasm_ended" revert to the state the spasm interrupted; the
\* pending transition is cleared in every case.
C22_RemapPolicyExceptSpasmEnd ==
    /\ RemapPolicy
    /\ RemappedByPolicy
    /\ RemappedToCurrent =>
          /\ IF SpasmWindowOver
             THEN /\ Committed
                  /\ LastCommit.reason = "spasm_ended"
                  /\ LastCommit.from = SPASM
                  /\ sm.current_state = obs.before.sm.pre_spasm_state
             ELSE /\ ~Committed
                  /\ sm.current_state = obs.before.sm.current_state
          /\ sm.pending_state = NoState
          /\ sm.pending_state_time = None

\* while AWAKE with a transition pending, no motion makes NO_BREATHING the
\* candidate, which is remapped to LIGHT_SLEEP
C22_Witness ==
    /\ LastWasUpdate
    /\ obs.calls >= 1
    /\ obs.before.sm.current_state = AWAKE
    /\ obs.target = NO_BREATHING
    /\ obs.remapped = LIGHT_SLEEP
    /\ sm.pending_state = LIGHT_SLEEP

\* ---------------------------------------------------------------------------
\* the sleep counters
\* ---------------------------------------------------------------------------

\* the last update was the first one of its session
FirstOfSession == obs.before.sm.last_update_time = 0

\* the time since the previous update
SincePrevious == now - obs.before.sm.last_update_time

\* C23 (metrics accrual): an update that is not the first of its session adds
\* the time since the previous update to the deep and total seconds when the
\* state after its transition is DEEP_SLEEP, to the light and total seconds
\* when it is LIGHT_SLEEP or SPASM, and to no counter when it is UNKNOWN,
\* NO_BREATHING or AWAKE; the first update of a session adds nothing.
C23_MetricsAccrual ==
    LastWasUpdate =>
        IF FirstOfSession
        THEN TotalAdded = 0 /\ DeepAdded = 0 /\ LightAdded = 0
        ELSE /\ sm.current_state = DEEP_SLEEP =>
                   DeepAdded = SincePrevious /\ TotalAdded = SincePrevious /\ LightAdded = 0
             /\ sm.current_state \in {LIGHT_SLEEP, SPASM} =>
                   LightAdded = SincePrevious /\ TotalAdded = SincePrevious /\ DeepAdded = 0
             /\ sm.current_state \in {UNKNOWN, NO_BREATHING, AWAKE} =>
                   TotalAdded = 0 /\ DeepAdded = 0 /\ LightAdded = 0

\* an update commits DEEP_SLEEP -> SPASM, and the time since the previous
\* update counts as light sleep
C23_Witness ==
    /\ LastWasUpdate
    /\ obs.calls >= 1
    /\ Committed
    /\ LastCommit.from = DEEP_SLEEP
    /\ sm.current_state = SPASM
    /\ SincePrevious > 0
    /\ LightAdded = SincePrevious

\* C24 as it is stated (sleep time is counted once): in every state reached
\* by update, start_session, stop_session and set_thresholds in any order,
\* total_sleep_seconds equals deep_sleep_seconds + light_sleep_seconds, and
\* total_sleep_seconds does not exceed the wall-clock time elapsed since the
\* session started.  (stop_session adds the open sleep interval to
\* total_sleep_seconds only, and update has already counted that time.)
C24_SleepCountedOnce ==
    /\ sm.total_sleep_seconds = sm.deep_sleep_seconds + sm.light_sleep_seconds
    /\ sm.session_start_time # None =>
           sm.total_sleep_seconds <= now - sm.session_start_time

\* ---------------------------------------------------------------------------
\* the pending transition
\* ---------------------------------------------------------------------------

\* C25 (pending-transition invariant): after every operation pending_state is
\* null exactly when pending_state_time is null; a non-null pending_state
\* differs from current_state and lies in the allowed row of current_state;
\* and right after a commit the pending transition is null and
\* state_start_time is the commit time.  (The one pair of fields holds at most
\* one pending transition.)
C25_PendingInvariant ==
    /\ (sm.pending_state = NoState) <=> (sm.pending_state_time = None)
    /\ sm.pending_state # NoState =>
           /\ sm.pending_state \in SleepState
           /\ sm.pending_state # sm.current_state
           /\ sm.pending_state \in VALID_TRANSITIONS[sm.current_state]
    /\ (LastWasUpdate /\ Committed) =>
           /\ sm.pending_state = NoState
           /\ sm.pending_state_time = None
           /\ sm.state_start_time = LastCommit.time
           /\ LastCommit.time = now

\* an update replaces the pending candidate by another one of the allowed row
C25_Witness ==
    /\ LastWasUpdate
    /\ obs.calls >= 1
    /\ ~Committed
    /\ obs.before.sm.pending_state # NoState
    /\ sm.pending_state # NoState
    /\ sm.pending_state # obs.before.sm.pending_state
    /\ sm.pending_state_time = now

\* ---------------------------------------------------------------------------
\* spasms
\* ---------------------------------------------------------------------------

\* the commit that entered the SPASM the last update found
SpasmEntry == obs.before.log[Len(obs.before.log)]

\* C26 (spasm revert): an update that finds the state SPASM and whose
\* candidate after the remap is SPASM, more than SPASM_WINDOW after the spasm
\* began, commits a transition with reason "spasm_ended" to the state recorded
\* as pre_spasm_state when SPASM was entered (DEEP_SLEEP or LIGHT_SLEEP),
\* appends no event, changes neither wake_up_count nor spasm_count and leaves
\* nothing pending; within the window the state stays SPASM.
C26_SpasmRevert ==
    (LastWasUpdate /\ obs.before.sm.current_state = SPASM /\ obs.remapped = SPASM) =>
        /\ Len(obs.before.log) > 0
        /\ SpasmEntry.to = SPASM
        /\ SpasmEntry.from = obs.before.sm.pre_spasm_state
        /\ SpasmEntry.time = obs.before.sm.spasm_start_time
        /\ IF now - obs.before.sm.spasm_start_time > thresholds.SPASM_WINDOW
           THEN /\ Len(log) = Len(obs.before.log) + 1
                /\ LastCommit = [from |-> SPASM, to |-> SpasmEntry.from,
                                 reason |-> "spasm_ended", time |-> now]
                /\ SpasmEntry.from \in {DEEP_SLEEP, LIGHT_SLEEP}
                /\ sm.current_state = SpasmEntry.from
                /\ sm.events = obs.before.sm.events
                /\ sm.wake_up_count = obs.before.sm.wake_up_count
                /\ sm.spasm_count = obs.before.sm.spasm_count
                /\ sm.pending_state = NoState
                /\ sm.pending_state_time = None
           ELSE /\ ~Committed
                /\ sm.current_state = SPASM

\* a spasm that interrupted DEEP_SLEEP ends after its window: the update
\* commits the revert to DEEP_SLEEP
C26_Witness ==
    /\ LastWasUpdate
    /\ obs.calls >= 1
    /\ obs.before.sm.current_state = SPASM
    /\ obs.remapped = SPASM
    /\ obs.before.sm.pre_spasm_state = DEEP_SLEEP
    /\ Committed
    /\ LastCommit.reason = "spasm_ended"
    /\ sm.current_state = DEEP_SLEEP

\* the transitions committed since the session began
SessionLog == SubSeq(log, obs.log_start + 1, Len(log))

\* the commits of the session into SPASM
SpasmCommits == SelectSeq(SessionLog, LAMBDA c : c.to = SPASM)

\* C27 (spasm bookkeeping): within a session spasm_count is the number of
\* spasm events and the number of committed transitions into SPASM; each of
\* these commits leaves DEEP_SLEEP or LIGHT_SLEEP; and while the state is
\* SPASM, spasm_start_time is set and pre_spasm_state is DEEP_SLEEP or
\* LIGHT_SLEEP.
C27_SpasmBookkeeping ==
    /\ sm.spasm_count = Len(EventsOfType(sm.events, "spasm"))
    /\ sm.spasm_count = Len(SpasmCommits)
    /\ \A i \in 1..Len(SpasmCommits) : SpasmCommits[i].from \in {DEEP_SLEEP, LIGHT_SLEEP}
    /\ sm.current_state = SPASM =>
           /\ sm.spasm_start_time # None
           /\ sm.pre_spasm_state \in {DEEP_SLEEP, LIGHT_SLEEP}

\* an update commits DEEP_SLEEP -> SPASM, the first spasm of the session
C27_Witness ==
    /\ LastWasUpdate
    /\ obs.calls >= 1
    /\ Committed
    /\ LastCommit.to = SPASM
    /\ LastCommit.from = DEEP_SLEEP
    /\ sm.current_state = SPASM
    /\ sm.spasm_start_time = now
    /\ sm.spasm_count = 1
    /\ Len(SpasmCommits) = 1

\* ---------------------------------------------------------------------------
\* wake-ups, sleep intervals and sleep cycles
\* ---------------------------------------------------------------------------

\* the commits of the session from DEEP_SLEEP or LIGHT_SLEEP to AWAKE
WakeUpCommits ==
    SelectSeq(SessionLog, LAMBDA c : c.from \in {DEEP_SLEEP, LIGHT_SLEEP} /\ c.to = AWAKE)

\* the last update committed a transition from DEEP_SLEEP or LIGHT_SLEEP to AWAKE
WokeUp ==
    /\ LastWasUpdate
    /\ Committed
    /\ LastCommit.from \in {DEEP_SLEEP, LIGHT_SLEEP}
    /\ LastCommit.to = AWAKE

\* C28 (wake-up bookkeeping): wake_up_count is the number of the session's
\* commits from DEEP_SLEEP or LIGHT_SLEEP to AWAKE.  Such a commit, when a
\* sleep interval is open, appends exactly one wake_up event carrying
\* now - last_sleep_start and sets last_sleep_start to null; and, when a cycle
\* is open as well, it appends one completed sleep cycle from
\* current_cycle_start to now and clears current_cycle_start.
C28_WakeUpBookkeeping ==
    /\ sm.wake_up_count = Len(WakeUpCommits)
    /\ WokeUp =>
          /\ sm.wake_up_count = obs.before.sm.wake_up_count + 1
          /\ obs.before.sm.last_sleep_start # None =>
                /\ sm.events =
                      Append(obs.before.sm.events,
                             SleepEvent("wake_up", now,
                                 [sleep_duration |-> now - obs.before.sm.last_sleep_start]))
                /\ sm.last_sleep_start = None
                /\ obs.before.sm.current_cycle_start # None =>
                      /\ Len(sm.sleep_cycles) = Len(obs.before.sm.sleep_cycles) + 1
                      /\ SubSeq(sm.sleep_cycles, 1, Len(obs.before.sm.sleep_cycles))
                            = obs.before.sm.sleep_cycles
                      /\ sm.sleep_cycles[Len(sm.sleep_cycles)].start
                            = obs.before.sm.current_cycle_start
                      /\ sm.sleep_cycles[Len(sm.sleep_cycles)].end = now
                      /\ sm.current_cycle_start = None

\* an update commits LIGHT_SLEEP -> AWAKE while a sleep interval and a cycle
\* are open: the wake_up event and the cycle are appended
C28_Witness ==
    /\ WokeUp
    /\ obs.calls >= 1
    /\ obs.before.sm.last_sleep_start # None
    /\ obs.before.sm.current_cycle_start # None
    /\ now - obs.before.sm.last_sleep_start > 0
    /\ Len(EventsOfType(sm.events, "wake_up")) = 1
    /\ Len(sm.sleep_cycles) = 1
    /\ sm.wake_up_count = 1

\* the events the last call appended
NewEvents == SubSeq(sm.events, Len(obs.before.sm.events) + 1, Len(sm.events))

\* the last update committed a transition from AWAKE or UNKNOWN to a sleep phase
FellAsleep ==
    /\ LastWasUpdate
    /\ Committed
    /\ LastCommit.from \in {AWAKE, UNKNOWN}
    /\ LastCommit.to \in {DEEP_SLEEP, LIGHT_SLEEP}

\* the last update committed a transition from one sleep phase to the other
PhaseChanged ==
    /\ LastWasUpdate
    /\ Committed
    /\ \/ LastCommit.from = DEEP_SLEEP /\ LastCommit.to = LIGHT_SLEEP
       \/ LastCommit.from = LIGHT_SLEEP /\ LastCommit.to = DEEP_SLEEP

PhaseName(state) == IF state = DEEP_SLEEP THEN "deep" ELSE "light"

\* C29 (fell-asleep bookkeeping): an update appends a fell_asleep event, and
\* sets last_sleep_start and current_cycle_start to the commit time, exactly
\* when it commits a transition from AWAKE or UNKNOWN to DEEP_SLEEP or
\* LIGHT_SLEEP; it appends a phase_change event carrying the names of the two
\* phases exactly when it commits DEEP_SLEEP -> LIGHT_SLEEP or
\* LIGHT_SLEEP -> DEEP_SLEEP; no other commit appends either event.
C29_FellAsleepBookkeeping ==
    LastWasUpdate =>
        /\ Len(EventsOfType(NewEvents, "fell_asleep")) = IF FellAsleep THEN 1 ELSE 0
        /\ Len(EventsOfType(NewEvents, "phase_change")) = IF PhaseChanged THEN 1 ELSE 0
        /\ IF FellAsleep
           THEN /\ Len(NewEvents) = 1
                /\ NewEvents[1].timestamp = LastCommit.time
                /\ sm.last_sleep_start = LastCommit.time
                /\ sm.current_cycle_start = LastCommit.time
           ELSE /\ sm.last_sleep_start \in {obs.before.sm.last_sleep_start, None}
                /\ sm.current_cycle_start \in {obs.before.sm.current_cycle_start, None}
        /\ PhaseChanged =>
              /\ Len(NewEvents) = 1
              /\ NewEvents[1].timestamp = LastCommit.time
              /\ NewEvents[1].data = [from |-> PhaseName(LastCommit.from),
                                      to |-> PhaseName(LastCommit.to)]

\* an update commits AWAKE -> DEEP_SLEEP: the fell_asleep event is appended
\* and the sleep interval and the cycle start at the commit
C29_Witness ==
    /\ FellAsleep
    /\ obs.calls >= 1
    /\ LastCommit.from = AWAKE
    /\ LastCommit.to = DEEP_SLEEP
    /\ Len(EventsOfType(NewEvents, "fell_asleep")) = 1
    /\ sm.last_sleep_start = now
    /\ sm.current_cycle_start = now

\* C30 (sleep-cycle consistency): in every reachable state, those after a
\* stop_session followed by further updates included, an open sleep interval
\* (last_sleep_start) implies an open cycle (current_cycle_start); the number
\* of completed sleep cycles is the number of wake_up events of the session
\* and is at most wake_up_count.
C30_SleepCycleConsistency ==
    /\ sm.last_sleep_start # None => sm.current_cycle_start # None
    /\ Len(sm.sleep_cycles) = Len(EventsOfType(sm.events, "wake_up"))
    /\ Len(sm.sleep_cycles) <= sm.wake_up_count

\* stop_session closed the sleep interval and left the cycle open, and the
\* next update committed LIGHT_SLEEP -> AWAKE: the wake-up is counted, and no
\* wake_up event and no cycle is recorded
C30_Witness ==
    /\ WokeUp
    /\ obs.calls >= 2
    /\ obs.before.sm.last_sleep_start = None
    /\ obs.before.sm.current_cycle_start # None
    /\ sm.current_cycle_start # None
    /\ sm.wake_up_count = 1
    /\ Len(sm.sleep_cycles) = 0
    /\ Len(EventsOfType(sm.events, "wake_up")) = 0

-----------------------------------------------------------------------------
(* Updates that keep arriving: the runs of update alone, from the starting
   states, with still samples 3 s or 12 s apart, followed until the alert is
   committed or the clock reaches MaxTime seconds.  The capture loop calls
   update for every frame, so the update is taken whenever it can be. *)

MaxTime == 140

StillGaps == {3 * Second, 12 * Second}

StillUpdate ==
    /\ sm.current_state # NO_BREATHING
    /\ \E dt \in StillGaps :
          /\ now + dt <= MaxTime * Second
          /\ \E nxt \in {CallUpdate(State, dt, Still)} : Assign(nxt)

\* what every step of StillUpdate does to the clock; it is enabled exactly
\* when StillUpdate is
StillTick ==
    /\ sm.current_state # NO_BREATHING
    /\ \E dt \in StillGaps :
          /\ now + dt <= MaxTime * Second
          /\ now' = now + dt

SpecStill == Init /\ [][StillUpdate]_vars /\ WF_now(StillTick)

\* every update of the run saw no motion
AlwaysNoMotion == [](obs.calls >= 1 => obs.is_no_motion)

\* the alert is committed and its event is in the log of events
AlertRaised ==
    /\ sm.current_state = NO_BREATHING
    /\ Len(EventsOfType(sm.events, "no_breathing_alert")) >= 1

\* no commit leads from AWAKE or SPASM to NO_BREATHING
AlertFromSleepOrUnknown ==
    \A i \in 1..Len(log) :
        log[i].to = NO_BREATHING => log[i].from \in {UNKNOWN, DEEP_SLEEP, LIGHT_SLEEP}

\* C31 (no-breathing liveness): from every current state, if updates keep
\* arriving with advancing time and each of them sees no motion, NO_BREATHING
\* is eventually committed and a no_breathing_alert event is emitted; no
\* commit leads from AWAKE or SPASM to NO_BREATHING, so from these two states
\* the alert comes after an intermediate sleep state.
C31_NoBreathingLiveness ==
    /\ []AlertFromSleepOrUnknown
    /\ AlwaysNoMotion => <>AlertRaised

\* a run that began in AWAKE: LIGHT_SLEEP was committed first, then the alert,
\* each update having seen no motion
C31_Witness ==
    /\ AlertRaised
    /\ obs.calls >= 3
    /\ obs.nm_calls = obs.calls
    /\ Len(log) >= 2
    /\ LastCommit.from = LIGHT_SLEEP
    /\ LastCommit.to = NO_BREATHING
    /\ log[Len(log) - 1].from = AWAKE
    /\ log[Len(log) - 1].to = LIGHT_SLEEP
    /\ log[Len(log) - 1].time >= now - obs.calls * 12 * Second

-----------------------------------------------------------------------------
(* Updates that keep arriving during a spasm: the runs of update alone from
   the two starting states in SPASM, with any sample 6 s or 12 s apart,
   followed until the state is no longer SPASM or the clock reaches MaxTime
   seconds. *)

SpasmGaps == {6 * Second, 12 * Second}

SpasmInit == \E samples \in {SpasmSamples, LightSpasmSamples} : Start(StartingState(samples))

SpasmUpdate ==
    /\ sm.current_state = SPASM
    /\ \E dt \in SpasmGaps, motion_score \in {Still, Quiet, Moving, Spike} :
          /\ now + dt <= MaxTime * Second
          /\ \E nxt \in {CallUpdate(State, dt, motion_score)} : Assign(nxt)

\* what every step of SpasmUpdate does to the clock; it is enabled exactly
\* when SpasmUpdate is
SpasmTick ==
    /\ sm.current_state = SPASM
    /\ \E dt \in SpasmGaps :
          /\ now + dt <= MaxTime * Second
          /\ now' = now + dt

SpecSpasm == SpasmInit /\ [][SpasmUpdate]_vars /\ WF_now(SpasmTick)

PhaseBefore ==
    IF LastCommit.from = SPASM THEN obs.before.sm.pre_spasm_state ELSE LastCommit.from

\* the last update brought the engine from one sleep phase to the other, with
\* at most a spasm in between
PhaseSwitched ==
    /\ LastWasUpdate
    /\ Committed
    /\ \/ PhaseBefore = DEEP_SLEEP /\ LastCommit.to = LIGHT_SLEEP
       \/ PhaseBefore = LIGHT_SLEEP /\ LastCommit.to = DEEP_SLEEP

\* the candidate of the last update has been produced, from the state the
\* update found, by every update of the last CONFIRM_PHASE_CHANGE_SECONDS
ObservedForPhaseDelay ==
    /\ obs.streak_cand = LastCommit.to
    /\ now - obs.streak_since >= thresholds.CONFIRM_PHASE_CHANGE_SECONDS

\* C33 as it is stated (phase-change hysteresis cannot be bypassed): when the
\* state is DEEP_SLEEP at one update and LIGHT_SLEEP at a later one, or the
\* reverse, with only DEEP_SLEEP, LIGHT_SLEEP and SPASM in between, the new
\* phase was the candidate for at least CONFIRM_PHASE_CHANGE_SECONDS and a
\* phase_change event was appended.
C33_PhaseHysteresis ==
    PhaseSwitched =>
        /\ ObservedForPhaseDelay
        /\ Len(EventsOfType(NewEvents, "phase_change")) = 1

\* C33, amended: the delay and the event belong to the direct commits
\* DEEP_SLEEP -> LIGHT_SLEEP and LIGHT_SLEEP -> DEEP_SLEEP.  A change of phase
\* across a spasm is committed out of SPASM after CONFIRM_DEFAULT, once the
\* candidate was pending for that long, and appends no phase_change event.
C33_DirectPhaseHysteresis ==
    PhaseSwitched =>
        IF LastCommit.from = SPASM
        THEN /\ LastCommit.reason = "confirmed"
             /\ obs.streak_cand = LastCommit.to
             /\ now - obs.streak_since >= CONFIRM_DEFAULT
             /\ NewEvents = <<>>
        ELSE /\ ObservedForPhaseDelay
             /\ Len(EventsOfType(NewEvents, "phase_change")) = 1

\* DEEP_SLEEP was pending for 24 s and the update 12 s later commits
\* LIGHT_SLEEP -> DEEP_SLEEP with its phase_change event
C33_Witness ==
    /\ PhaseSwitched
    /\ obs.calls >= 1
    /\ LastCommit.from = LIGHT_SLEEP
    /\ LastCommit.to = DEEP_SLEEP
    /\ now - obs.streak_since >= 30 * Second
    /\ Len(EventsOfType(NewEvents, "phase_change")) = 1

-----------------------------------------------------------------------------
(* The session ids of the persisted history.  uuid4 gives every session an
   id no other session has; the model numbers the sessions. *)

\* C35 as it is stated (each session is persisted at most once): no two
\* entries of a history file carry the same session id.  (stop_session
\* leaves session_start_time and total_sleep_seconds as they are, so a
\* second stop_session saves the session again.)
C35_PersistedOnce ==
    \A file \in HistoryFiles :
        \A i, j \in 1..Len(history[file]) :
            i # j => history[file][i].id # history[file][j].id

-----------------------------------------------------------------------------
(* Breath peaks.  A sample above BREATH_PEAK_THRESHOLD that arrives while
   in_peak is False begins a peak. *)

\* the last update's sample began a peak
PeakEntry ==
    /\ LastWasUpdate
    /\ obs.calls >= 1
    /\ obs.score > BREATH_PEAK_THRESHOLD
    /\ ~obs.before.ba.in_peak

\* the last update recorded the time of its sample as a peak timestamp
TimestampRecorded ==
    ba.breath_timestamps =
        DequeAppend(obs.before.ba.breath_timestamps, now, MaxBreathTimestamps)

\* the last update recorded the distance of its peak to the previous one
IntervalRecorded ==
    ba.breath_intervals =
        DequeAppend(obs.before.ba.breath_intervals, PeakGap, MaxBreathIntervals)

\* C36 (peak entry refreshes last_peak_time): a sample that begins a peak at
\* time t leaves last_peak_time = t, whether it is the first peak or follows
\* an earlier one at any distance.  The first peak and a peak more than 5 s
\* after the previous one record the timestamp only, a peak between 1 s and
\* 5 s after the previous one records the timestamp and the interval, and a
\* peak less than 1 s after the previous one records neither.
C36_PeakEntryRefreshesTime ==
    PeakEntry =>
        /\ ba.last_peak_time = now
        /\ ba.in_peak
        /\ IF obs.before.ba.last_peak_time = None \/ PeakGap > 5 * Second
           THEN TimestampRecorded /\ ba.breath_intervals = obs.before.ba.breath_intervals
           ELSE IF PeakGap < 1 * Second
           THEN /\ ba.breath_timestamps = obs.before.ba.breath_timestamps
                /\ ba.breath_intervals = obs.before.ba.breath_intervals
           ELSE TimestampRecorded /\ IntervalRecorded

\* C36's case: a peak more than 5 s after the previous one, which records its
\* timestamp and no interval
C36_Witness ==
    /\ PeakEntry
    /\ obs.before.ba.last_peak_time # None
    /\ PeakGap > 5 * Second
    /\ ba.last_peak_time = now
    /\ Len(ba.breath_timestamps) = Len(obs.before.ba.breath_timestamps) + 1
    /\ ba.breath_timestamps[Len(ba.breath_timestamps)] = now
    /\ ba.breath_intervals = obs.before.ba.breath_intervals

\* the last update's sample was above the threshold while in_peak was True
InsidePeak ==
    /\ LastWasUpdate
    /\ obs.calls >= 1
    /\ obs.score > BREATH_PEAK_THRESHOLD
    /\ obs.before.ba.in_peak

\* C37 (one peak per excursion): a sample above the threshold that follows
\* one above the threshold leaves the analyzer as it was; an update that
\* records a timestamp or an interval, or moves last_peak_time, found in_peak
\* False; in_peak is True after an update exactly when its sample was above
\* the threshold, and start_session clears it.
C37_OnePeakPerExcursion ==
    /\ InsidePeak => ba = obs.before.ba
    /\ (LastWasUpdate /\ obs.calls >= 1) =>
          /\ ba.in_peak <=> obs.score > BREATH_PEAK_THRESHOLD
          /\ (ba # [obs.before.ba EXCEPT !.in_peak = ba.in_peak]) => ~obs.before.ba.in_peak
    /\ (obs.op = "start_session" /\ obs.calls >= 1) => ba = BreathingAnalyzerInit
    /\ (~LastWasUpdate /\ obs.op # "start_session") => ba = obs.before.ba

\* C37's case: the second of two samples above the threshold, 3 s or more
\* after the first, which began the peak
C37_Witness ==
    /\ InsidePeak
    /\ obs.calls = 2
    /\ obs.before.ba.last_peak_time = obs.before.now
    /\ now - obs.before.now >= 3 * Second
    /\ ba.last_peak_time = obs.before.now
    /\ ba.breath_timestamps # <<>>

-----------------------------------------------------------------------------
(* The breath histories at their caps.  The session begins with a train of
   breaths, a peak every 2 s, long enough to fill both histories and to
   overflow them (n peaks leave n timestamps and n - 1 intervals); at any
   point of the train the samples may turn to any gap and level. *)

\* the time the train ends: after one peak more than the timestamp history holds
BreathTrainEnd == 2 * (MaxBreathTimestamps + 1) * Second

\* the time between two calls after the train: 0.5 s, 2 s, 6 s
BreathGaps == {HalfSecond, 2 * Second, 6 * Second}

BreathInit == Start(StartingState(<<<<0, Quiet>>>>))

\* the next sample of the train, 1 s after the last: a peak after a quiet
\* sample, a quiet sample after a peak
Breathe ==
    /\ obs.calls = 0
    /\ now < BreathTrainEnd
    /\ \E nxt \in {CallUpdate(State, Second, IF ba.in_peak THEN Quiet ELSE Peak)} :
          Assign([nxt EXCEPT !.obs.calls = 0, !.obs.nm_calls = 0])

BreathUpdate ==
    /\ obs.calls < MaxCalls
    /\ \E dt \in BreathGaps, motion_score \in {Quiet, Peak} :
          \E nxt \in {CallUpdate(State, dt, motion_score)} : Assign(nxt)

BreathNext == Breathe \/ BreathUpdate

SpecBreath == BreathInit /\ [][BreathNext]_vars

\* C38 (breath history bounds): the timestamp history holds at most 100
\* entries and the interval history at most 50; an update that records an
\* entry in a full history drops the oldest entry and keeps the others in
\* their order; and a timestamp history that is not empty is longer than the
\* interval history.
C38_BreathHistoryBounds ==
    /\ Len(ba.breath_timestamps) <= 100
    /\ Len(ba.breath_intervals) <= 50
    /\ ba.breath_timestamps # <<>> => Len(ba.breath_intervals) < Len(ba.breath_timestamps)
    /\ (LastWasUpdate /\ obs.calls >= 1) =>
          LET old == obs.before.ba
          IN  /\ ba.breath_timestamps # old.breath_timestamps =>
                    ba.breath_timestamps =
                        Append(IF Len(old.breath_timestamps) = 100
                               THEN Tail(old.breath_timestamps)
                               ELSE old.breath_timestamps, now)
              /\ ba.breath_intervals # old.breath_intervals =>
                    ba.breath_intervals =
                        Append(IF Len(old.breath_intervals) = 50
                               THEN Tail(old.breath_intervals)
                               ELSE old.breath_intervals, PeakGap)

\* C38's case: both histories were full, and the update recorded a timestamp
\* and an interval: the oldest of each is gone
C38_Witness ==
    /\ LastWasUpdate
    /\ obs.calls >= 1
    /\ Len(obs.before.ba.breath_timestamps) = 100
    /\ Len(obs.before.ba.breath_intervals) = 50
    /\ Len(ba.breath_timestamps) = 100
    /\ Len(ba.breath_intervals) = 50
    /\ ba.breath_timestamps[100] = now
    /\ ba.breath_timestamps[1] = obs.before.ba.breath_timestamps[2]
    /\ ba.breath_timestamps[1] # obs.before.ba.breath_timestamps[1]
    /\ ba.breath_intervals[50] = PeakGap
    /\ PeakGap = 3 * Second

-----------------------------------------------------------------------------
(* The read accessors between the updates: get_stats, get_recent_events and
   get_sleep_report are called between the updates of a session, and time
   passes while they run. *)

\* the time a call takes, or that passes before it: 0.5 s, 12 s
ReadGaps == {HalfSecond, 12 * Second}

ReadScores == {Quiet, Peak, Spike}

ReadCounts == {1, 10}

ReadsUpdate ==
    /\ obs.calls < MaxCalls
    /\ \E dt \in ReadGaps, motion_score \in ReadScores :
          \E nxt \in {CallUpdate(State, dt, motion_score)} : Assign(nxt)

ReadsGetStats ==
    /\ obs.calls < MaxCalls
    /\ \E dt \in ReadGaps : \E nxt \in {CallGetStats(State, dt)} : Assign(nxt)

ReadsGetSleepReport ==
    /\ obs.calls < MaxCalls
    /\ \E dt \in ReadGaps : \E nxt \in {CallGetSleepReport(State, dt)} : Assign(nxt)

ReadsGetRecentEvents ==
    /\ obs.calls < MaxCalls
    /\ \E count \in ReadCounts : \E nxt \in {CallGetRecentEvents(State, count)} : Assign(nxt)

ReadsNext == ReadsUpdate \/ ReadsGetStats \/ ReadsGetSleepReport \/ ReadsGetRecentEvents

SpecReads == Init /\ [][ReadsNext]_vars

\* the last call was a read accessor
LastWasRead == obs.op \in ReadingMethods

\* C39 (read accessors have no effect on engine state): a step that is a call
\* of get_stats, get_recent_events or get_sleep_report leaves the manager
\* (state, pending transition and its timer, motion buffer, metrics, events,
\* time of the last update), the breath histories, the transition log, the
\* thresholds and the history file as they were; and an update that follows
\* a read leaves the engine in the state the same update, at the same time,
\* leaves it in from the state before the read.
C39_ReadsHaveNoEffect ==
    [][/\ (obs'.calls = obs.calls + 1 /\ obs'.op \in ReadingMethods) =>
             /\ sm' = sm
             /\ ba' = ba
             /\ log' = log
             /\ thresholds' = thresholds
             /\ history' = history
       /\ (obs'.calls = obs.calls + 1 /\ obs'.op = "update" /\ LastWasRead /\ obs.calls >= 1) =>
             LET without == update([sm |-> obs.before.sm, ba |-> obs.before.ba,
                                    log |-> obs.before.log],
                                   obs.before.thresholds, obs'.score, now')
             IN  /\ sm' = without.sm
                 /\ ba' = without.ba
                 /\ log' = without.log]_vars

\* C39's case: get_sleep_report, called 12 s after the last update of a
\* session that has a pending transition, breath peaks and events, returned
\* and left them as they were
C39_Witness ==
    /\ obs.op = "get_sleep_report"
    /\ obs.calls >= 1
    /\ now = obs.before.now + 12 * Second
    /\ sm.pending_state # NoState
    /\ sm.pending_state = obs.before.sm.pending_state
    /\ sm.pending_state_time = obs.before.sm.pending_state_time
    /\ sm.events # <<>>
    /\ ba.breath_timestamps # <<>>
    /\ sm.last_update_time < now

-----------------------------------------------------------------------------
(* The threads under a fair scheduler: a thread that can take its next step
   (take the lock when it is free, run the next statement of its body, leave
   a with block) takes it at some time.  No thread has to call a method. *)

\* what Enter(t) does to the lock; it is enabled exactly when Enter(t) is
EnterTick(t) ==
    /\ threads[t].method # NoMethod
    /\ threads[t].held = 0
    /\ threads[t].done = 0
    /\ LockFree(lock, t)
    /\ lock' = acquire(lock, t)

\* what Read(t) does to the thread; it is enabled exactly when Read(t) is
ReadTick(t) ==
    /\ threads[t].held = Depth(threads[t].method)
    /\ threads[t].reads > 0
    /\ threads' = [threads EXCEPT ![t].reads = 0, ![t].done = @ + 1,
                                  ![t].torn_by = TornBy(t)]

FairThread(t) ==
    /\ WF_lock(EnterTick(t))
    /\ WF_vars(Reenter(t))
    /\ WF_vars(Write(t))
    /\ WF_threads(ReadTick(t))
    /\ WF_vars(Leave(t))

SpecLockFair == LockInit /\ [][LockNext]_vars /\ \A t \in Threads : FairThread(t)

\* thread t is inside a stop_session that saves the session: the report is
\* still to be read, or the lock is held more than once
Saving(t) ==
    /\ threads[t].method = "stop_session"
    /\ InBody(t)
    /\ threads[t].reads > 0 \/ threads[t].held > 1

\* thread t stands before "with self.lock"
Waiting(t) == threads[t].method # NoMethod /\ threads[t].held = 0

\* C34 (reentrancy without deadlock): a stop_session that saves the session,
\* and takes the lock again in get_sleep_report and in get_stats, comes to
\* its end; a thread that is out of every with block does not own the lock;
\* and an update or a reader that waits for the lock gets inside its body.
C34_ReentrancyWithoutDeadlock ==
    /\ [](\A t \in Threads : threads[t].held = 0 => lock.owner # t)
    /\ Saving(Writer) ~> (threads[Writer].method = NoMethod)
    /\ \A t \in {Producer, Reader} : Waiting(t) ~> InBody(t)

\* stop_session is inside get_stats, the lock taken three times, while the
\* update and a reader wait for the lock
C34_Witness ==
    /\ Saving(Writer)
    /\ threads[Writer].held = 3
    /\ lock = [owner |-> Writer, count |-> 3]
    /\ threads[Producer].method = "update"
    /\ Waiting(Producer)
    /\ Waiting(Reader)

=============================================================================
